---- MODULE Spec2Model ----
(***************************************************************************)
(* A model of crates/wasm-bindgen-cli-support/src/js.rs: the glue          *)
(* generator (Context / SubContext), the module rewriter, and the runtime  *)
(* protocol that the emitted JavaScript implements (slab, stack, export    *)
(* and import wrappers).                                                   *)
(*                                                                         *)
(* The emitted JavaScript is modelled by what it does when it runs: each   *)
(* JS function is an operator from a runtime state to a runtime state, a   *)
(* return value and a "threw" flag.  The glue is an ES module, hence       *)
(* strict-mode code.                                                       *)
(***************************************************************************)
EXTENDS Integers, Sequences, FiniteSets, TLC

VARIABLES
    debug,          \* config.debug: the glue was emitted with assertions
    slab,           \* JS `slab`: sequence of cells, JS index i is slab[i+1]
    slab_next,      \* JS `slab_next`: head of the free list
    stack,          \* JS `stack`: the borrowed-object region
    handles,        \* history: per heap handle handed out, what the wasm side holds
    last,           \* history: the most recent runtime operation and its result
    frames,         \* export wrappers in progress, innermost last
    done,           \* history: the export wrapper call that ended most recently
    lifo,           \* history: every pop so far removed an entry of the popping call
    mem,            \* wasm linear memory seen as 32-bit words
    icall,          \* history: the import wrapper call that ended most recently
    module,         \* the parity_wasm Module: a sequence of sections
    orig,           \* history: the module as it was handed to the Context
    cx,             \* Context bookkeeping: exposed_globals, required_internal_exports, ...
    phase,          \* position of the generation pass
    module_name,    \* the module_name handed to finalize
    asked,          \* history: the descriptors handed to the generator, in order
    stale,          \* history: heap handles the wasm side dropped to zero and kept a copy of
    instances,      \* JS instances of the exported classes: their ptr field
    wasm_calls,     \* history: the calls the glue made into the wasm module
    codec           \* a string on its way through linear memory: bytes, ptr, len, result

slabVars == <<debug, slab, slab_next, stack, handles, last>>
wrapVars == <<frames, done, lifo>>
impVars  == <<mem, icall>>
genVars  == <<module, orig, cx, phase, module_name>>
extVars  == <<asked, stale, instances, wasm_calls, codec>>
vars == <<debug, slab, slab_next, stack, handles, last, frames, done, lifo,
          mem, icall, module, orig, cx, phase, module_name,
          asked, stale, instances, wasm_calls, codec>>

\* no string has been passed yet
NoCodec == [pc |-> "idle", nodejs |-> FALSE, arg |-> <<>>, memory |-> <<>>,
            ptr |-> 0, len |-> 0, ret |-> <<>>]

NoDone == [arguments |-> <<>>, entry |-> 0, pre |-> 0, exit |-> 0, called |-> FALSE,
           cleanups |-> 0, ran |-> <<>>, outcome |-> "none"]
NoMem == <<>>
NoICall == [catch |-> FALSE, ret |-> "None", by |-> "none", exn |-> "undefined",
            exnptr |-> 0, propagated |-> FALSE, id |-> 0]
NoCx == [exposed_globals |-> {}, required_internal_exports |-> {},
         imports_to_rewrite |-> {}, imported_names |-> {}, exported_classes |-> <<>>,
         custom_type_names |-> <<>>,
         globals |-> <<>>, imports |-> <<>>, nodejs |-> FALSE, panicked |-> FALSE,
         wasm_refs |-> {}]

(***************************************************************************)
(* Bounds of the model.                                                    *)
(***************************************************************************)
MaxSlab == 2
MaxRefs == 3
MaxStack == 1

Values == {"va", "vb"}
Undefined == "undefined"

(***************************************************************************)
(* JS values held in the slab.  A slab cell is a JS number (a free-list    *)
(* link) or the object {obj, cnt}.                                         *)
(***************************************************************************)
Link(n) == [kind |-> "number", num |-> n, obj |-> Undefined, cnt |-> 0]
Cell(v, c) == [kind |-> "object", num |-> 0, obj |-> v, cnt |-> c]

\* idx >> 1 and idx & 1 on the non-negative handles of the model
Shr1(idx) == idx \div 2
IsStackIdx(idx) == idx % 2 = 1

\* slab[i] of JS (0-based); out of range reads give undefined
InSlab(s, i) == i >= 0 /\ i < Len(s)
SlabAt(s, i) == s[i + 1]

\* A runtime state and the result of running one emitted JS function on it.
RT(s, n, k) == [slab |-> s, slab_next |-> n, stack |-> k]
Res(rt, ret, threw) == [rt |-> rt, ret |-> ret, threw |-> threw]

(***************************************************************************)
(* The runtime support library (expose_* emit these JS functions).         *)
(* Each operator takes the runtime state rt, the debug flag d the glue was *)
(* emitted with, and the JS arguments.                                     *)
(***************************************************************************)

\* function getObject(idx): never mutates state.
\* slab[idx >> 1] out of range is undefined, and undefined.obj is a TypeError;
\* (5).obj is undefined.
GetObject(rt, d, idx) ==
    IF IsStackIdx(idx)
    THEN Res(rt, IF Shr1(idx) < Len(rt.stack) THEN rt.stack[Shr1(idx) + 1]
                 ELSE Undefined, FALSE)
    ELSE IF ~InSlab(rt.slab, Shr1(idx)) THEN Res(rt, Undefined, TRUE)
    ELSE LET val == SlabAt(rt.slab, Shr1(idx)) IN
         IF val.kind = "number"
         THEN Res(rt, Undefined, d)      \* debug: throw new Error('corrupt slab')
         ELSE Res(rt, val.obj, FALSE)

\* A build whose addHeapObject forgets `slab_next = next`.
AddHeapObjectKeepsHead(rt, d, obj) ==
    LET s1 == IF rt.slab_next = Len(rt.slab)
              THEN Append(rt.slab, Link(Len(rt.slab) + 1))
              ELSE rt.slab
        idx == rt.slab_next
    IN  Res(RT([s1 EXCEPT ![idx + 1] = Cell(obj, 1)], rt.slab_next, rt.stack),
            idx * 2, FALSE)

\* function addHeapObject(obj)
\* On a well-formed free list `next` is always a number (FreeListOk below);
\* num of an object cell stands for the non-number the non-debug build
\* would store.
AddHeapObject(rt, d, obj) ==
    LET s1 == IF rt.slab_next = Len(rt.slab)
              THEN Append(rt.slab, Link(Len(rt.slab) + 1))
              ELSE rt.slab
        idx == rt.slab_next
    IN  IF ~InSlab(s1, idx)
        THEN Res(RT(s1, rt.slab_next, rt.stack), Undefined, TRUE)
        ELSE LET next == SlabAt(s1, idx) IN
             IF d /\ next.kind # "number"
             THEN Res(RT(s1, rt.slab_next, rt.stack), Undefined, TRUE)
             ELSE Res(RT([s1 EXCEPT ![idx + 1] = Cell(obj, 1)], next.num, rt.stack),
                      idx * 2, FALSE)

\* function addBorrowedObject(obj)
AddBorrowedObject(rt, obj) ==
    Res(RT(rt.slab, rt.slab_next, Append(rt.stack, obj)),
        ((Len(rt.stack) + 1 - 1) * 2) + 1, FALSE)

\* A build whose dropRef frees the cell while references remain
\* (`if (obj.cnt > 1) return;`).
DropRefFreesEarly(rt, d, idx) ==
    LET i == Shr1(idx)
        obj == SlabAt(rt.slab, i)
    IN  IF obj.cnt - 1 > 1
        THEN Res(RT([rt.slab EXCEPT ![i + 1] = Cell(obj.obj, obj.cnt - 1)],
                    rt.slab_next, rt.stack), Undefined, FALSE)
        ELSE Res(RT([rt.slab EXCEPT ![i + 1] = Link(rt.slab_next)], i, rt.stack),
                 Undefined, FALSE)

\* A build whose diagnostic dropRef lacks the check for stack handles.
DropRefNoOwnedCheck(rt, d, idx) ==
    LET i == Shr1(idx) IN
    IF ~InSlab(rt.slab, i) THEN Res(rt, Undefined, TRUE)
    ELSE LET obj == SlabAt(rt.slab, i) IN
         IF obj.kind = "number" THEN Res(rt, Undefined, TRUE)
         ELSE IF obj.cnt - 1 > 0
         THEN Res(RT([rt.slab EXCEPT ![i + 1] = Cell(obj.obj, obj.cnt - 1)],
                     rt.slab_next, rt.stack), Undefined, FALSE)
         ELSE Res(RT([rt.slab EXCEPT ![i + 1] = Link(rt.slab_next)], i, rt.stack),
                  Undefined, FALSE)

\* A build whose dropRef forgets `slab_next = idx >> 1`: the released cell is
\* never the head of the free list.
DropRefLosesCell(rt, d, idx) ==
    LET i == Shr1(idx) IN
    IF d /\ IsStackIdx(idx) THEN Res(rt, Undefined, TRUE)
    ELSE IF ~InSlab(rt.slab, i) THEN Res(rt, Undefined, TRUE)
    ELSE LET obj == SlabAt(rt.slab, i) IN
         IF obj.kind = "number" THEN Res(rt, Undefined, TRUE)
         ELSE IF obj.cnt - 1 > 0
         THEN Res(RT([rt.slab EXCEPT ![i + 1] = Cell(obj.obj, obj.cnt - 1)],
                     rt.slab_next, rt.stack), Undefined, FALSE)
         ELSE Res(RT([rt.slab EXCEPT ![i + 1] = Link(rt.slab_next)], rt.slab_next,
                     rt.stack), Undefined, FALSE)

\* A build whose dropRef has no 'corrupt slab' check and runs as sloppy-mode JS:
\* `obj.cnt -= 1` on a number does nothing and the cell is linked in again.
DropRefUnchecked(rt, d, idx) ==
    LET i == Shr1(idx) IN
    IF d /\ IsStackIdx(idx) THEN Res(rt, Undefined, TRUE)
    ELSE IF ~InSlab(rt.slab, i) THEN Res(rt, Undefined, TRUE)
    ELSE LET obj == SlabAt(rt.slab, i) IN
         IF obj.kind = "object" /\ obj.cnt - 1 > 0
         THEN Res(RT([rt.slab EXCEPT ![i + 1] = Cell(obj.obj, obj.cnt - 1)],
                     rt.slab_next, rt.stack), Undefined, FALSE)
         ELSE Res(RT([rt.slab EXCEPT ![i + 1] = Link(rt.slab_next)], i, rt.stack),
                  Undefined, FALSE)

\* A build whose diagnostic dropRef checks the cell and leaves its count alone.
DropRefDebugKeepsCount(rt, d, idx) ==
    LET i == Shr1(idx) IN
    IF d /\ IsStackIdx(idx) THEN Res(rt, Undefined, TRUE)
    ELSE IF ~InSlab(rt.slab, i) THEN Res(rt, Undefined, TRUE)
    ELSE LET obj == SlabAt(rt.slab, i) IN
         IF obj.kind = "number" THEN Res(rt, Undefined, TRUE)
         ELSE IF d THEN Res(rt, Undefined, FALSE)
         ELSE IF obj.cnt - 1 > 0
         THEN Res(RT([rt.slab EXCEPT ![i + 1] = Cell(obj.obj, obj.cnt - 1)],
                     rt.slab_next, rt.stack), Undefined, FALSE)
         ELSE Res(RT([rt.slab EXCEPT ![i + 1] = Link(rt.slab_next)], i, rt.stack),
                  Undefined, FALSE)

\* function dropRef(idx)
\* obj.cnt -= 1 on undefined, or (strict mode) on a number, is a TypeError.
DropRef(rt, d, idx) ==
    LET i == Shr1(idx) IN
    IF d /\ IsStackIdx(idx) THEN Res(rt, Undefined, TRUE)
    ELSE IF ~InSlab(rt.slab, i) THEN Res(rt, Undefined, TRUE)
    ELSE LET obj == SlabAt(rt.slab, i) IN
         IF obj.kind = "number" THEN Res(rt, Undefined, TRUE)
         ELSE IF obj.cnt - 1 > 0
         THEN Res(RT([rt.slab EXCEPT ![i + 1] = Cell(obj.obj, obj.cnt - 1)],
                     rt.slab_next, rt.stack), Undefined, FALSE)
         ELSE Res(RT([rt.slab EXCEPT ![i + 1] = Link(rt.slab_next)], i, rt.stack),
                  Undefined, FALSE)

\* A build whose takeObject reads the object and forgets the dropRef.
TakeObjectKeepsRef(rt, d, idx) == GetObject(rt, d, idx)

\* function takeObject(idx)
TakeObject(rt, d, idx) ==
    LET g == GetObject(rt, d, idx) IN
    IF g.threw THEN g
    ELSE LET r == DropRef(rt, d, idx) IN
         IF r.threw THEN r ELSE Res(r.rt, g.ret, FALSE)

\* A build whose clone_ref returns a stack handle as it is instead of
\* promoting it, and bumps a heap count twice.
CloneRefNoPromote(rt, d, idx) ==
    IF IsStackIdx(idx) THEN Res(rt, idx, FALSE)
    ELSE LET val == SlabAt(rt.slab, Shr1(idx)) IN
         Res(RT([rt.slab EXCEPT ![Shr1(idx) + 1] = Cell(val.obj, val.cnt + 2)],
                rt.slab_next, rt.stack), idx, FALSE)

\* export const __wbindgen_object_clone_ref = function(idx) {...}
CloneRef(rt, d, idx) ==
    IF IsStackIdx(idx)
    THEN LET g == GetObject(rt, d, idx) IN
         IF g.threw THEN g ELSE AddHeapObject(rt, d, g.ret)
    ELSE IF ~InSlab(rt.slab, Shr1(idx)) THEN Res(rt, Undefined, TRUE)
    ELSE LET val == SlabAt(rt.slab, Shr1(idx)) IN
         IF val.kind = "number" THEN Res(rt, Undefined, TRUE)
         ELSE Res(RT([rt.slab EXCEPT ![Shr1(idx) + 1] = Cell(val.obj, val.cnt + 1)],
                     rt.slab_next, rt.stack), idx, FALSE)

(***************************************************************************)
(* The wasm side: it holds the heap handles it was given and applies the   *)
(* runtime operations to handles that are live for it.                     *)
(***************************************************************************)
NoHandles == [h \in {} |-> 0]
\* refs: 1 + the clones made of the handle - the drops made on it, that is,
\* the references the wasm side still holds; the handle is live while refs > 0
\* cloned: cloneRef was applied to the handle since addHeapObject returned it
Held(v) == [obj |-> v, refs |-> 1, cloned |-> FALSE]
Live(hs, h) == h \in DOMAIN hs /\ hs[h].refs > 0
Dropped(hs, h) == [hs EXCEPT ![h] = IF @.refs = 1
                                     THEN [obj |-> Undefined, refs |-> 0, cloned |-> @.cloned]
                                     ELSE [@ EXCEPT !.refs = @ - 1]]
Give(hs, h, v) == [x \in DOMAIN hs \cup {h} |-> IF x = h THEN Held(v) ELSE hs[x]]
Occupied(s) == {i \in 1..Len(s) : s[i].kind = "object"}
LiveStack == {2 * i + 1 : i \in 0..(Len(stack) - 1)}
LiveHeap == {h \in DOMAIN handles : Live(handles, h)}

Op(op, arg, r, wasLive) ==
    [op |-> op, arg |-> arg, ret |-> r.ret, threw |-> r.threw, was_live |-> wasLive]
NoOp == [op |-> "none", arg |-> 0, ret |-> Undefined, threw |-> FALSE, was_live |-> FALSE]

Now == RT(slab, slab_next, stack)
SetRT(rt) == slab' = rt.slab /\ slab_next' = rt.slab_next /\ stack' = rt.stack

RestIdle == UNCHANGED <<frames, done, lifo, mem, icall, module, orig, cx, phase,
                        module_name, asked, instances, wasm_calls, codec>>
OtherIdle == RestIdle /\ UNCHANGED stale

DoAddHeapObject(v) ==
    /\ Cardinality(Occupied(slab)) < MaxSlab
    /\ LET r == AddHeapObject(Now, debug, v) IN
       /\ SetRT(r.rt)
       /\ last' = Op("addHeapObject", v, r, ~r.threw /\ Live(handles, r.ret))
       /\ handles' = IF r.threw THEN handles ELSE Give(handles, r.ret, v)
    /\ UNCHANGED debug /\ OtherIdle

DoCloneRef(h) ==
    /\ IF IsStackIdx(h) THEN Cardinality(Occupied(slab)) < MaxSlab
       ELSE handles[h].refs < MaxRefs
    /\ LET r == CloneRef(Now, debug, h) IN
       /\ SetRT(r.rt)
       /\ last' = Op("cloneRef", h, r, ~r.threw /\ IsStackIdx(h) /\ Live(handles, r.ret))
       /\ handles' = IF r.threw THEN handles
                     ELSE IF IsStackIdx(h)
                     THEN (IF r.ret % 2 = 0 THEN Give(handles, r.ret, stack[Shr1(h) + 1])
                           ELSE handles)
                     ELSE [handles EXCEPT ![h].refs = @ + 1, ![h].cloned = TRUE]
    /\ UNCHANGED debug /\ OtherIdle

DropRefStep(h) ==
    /\ LET r == DropRef(Now, debug, h) IN
       /\ SetRT(r.rt)
       /\ last' = Op("dropRef", h, r, FALSE)
       /\ handles' = IF r.threw THEN handles ELSE Dropped(handles, h)
    /\ UNCHANGED debug

DoDropRef(h) == DropRefStep(h) /\ OtherIdle

DoTakeObject(h) ==
    /\ LET r == TakeObject(Now, debug, h) IN
       /\ SetRT(r.rt)
       /\ last' = Op("takeObject", h, r, FALSE)
       /\ handles' = IF r.threw THEN handles ELSE Dropped(handles, h)
    /\ UNCHANGED debug /\ OtherIdle

DoAddBorrowedObject(v) ==
    /\ Len(stack) < MaxStack
    /\ LET r == AddBorrowedObject(Now, v) IN
       /\ SetRT(r.rt)
       /\ last' = Op("addBorrowedObject", v, r, FALSE)
    /\ UNCHANGED <<debug, handles>> /\ OtherIdle

\* the `stack.pop();` of an export wrapper's cleanup
DoStackPop ==
    /\ Len(stack) > 0
    /\ stack' = SubSeq(stack, 1, Len(stack) - 1)
    /\ last' = [NoOp EXCEPT !.op = "pop"]
    /\ UNCHANGED <<debug, slab, slab_next, handles>> /\ OtherIdle

WrapInit == frames = <<>> /\ done = NoDone /\ lifo = TRUE
ImpInit == mem = NoMem /\ icall = NoICall
GenInit == module = <<>> /\ orig = <<>> /\ cx = NoCx /\ phase = "idle" /\ module_name = ""
ExtInit == asked = <<>> /\ stale = {} /\ instances = <<>> /\ wasm_calls = <<>>
           /\ codec = NoCodec
SlabInit == slab = <<>> /\ slab_next = 0 /\ stack = <<>> /\ handles = NoHandles
            /\ last = NoOp

Init == debug \in BOOLEAN /\ SlabInit /\ WrapInit /\ ImpInit /\ GenInit /\ ExtInit

Next ==
    \/ \E v \in Values : DoAddHeapObject(v)
    \/ \E h \in LiveHeap \cup LiveStack : DoCloneRef(h)
    \/ \E h \in LiveHeap : DoDropRef(h)
    \/ \E h \in LiveHeap : DoTakeObject(h)
    \/ \E v \in Values : DoAddBorrowedObject(v)
    \/ DoStackPop

Spec == Init /\ [][Next]_vars

(***************************************************************************)
(* Claims about the slab protocol (specification Spec).                    *)
(***************************************************************************)

\* C1: every live heap handle h returned by addHeapObject(v) still makes
\* getObject(h) return v, whatever addHeapObject, cloneRef, dropRef and
\* takeObject did since, and no addHeapObject (direct or through a
\* promotion) returned a handle that was live when it was returned.
C1_LiveHandleKeepsValue ==
    /\ \A h \in LiveHeap :
          LET g == GetObject(Now, debug, h) IN ~g.threw /\ g.ret = handles[h].obj
    /\ ~last.was_live
    /\ last.op = "addHeapObject" =>
          ~last.threw /\ last.ret % 2 = 0 /\ GetObject(Now, debug, last.ret).ret = last.arg

\* C1 witness: addHeapObject has just reused slot 0, freed earlier, while
\* handle 2 is live and holds another value.
C1_SlotReused ==
    /\ last.op = "addHeapObject" /\ last.ret = 0 /\ Len(slab) = 2
    /\ Live(handles, 2) /\ handles[2].obj # last.arg
    /\ GetObject(Now, debug, 2).ret = handles[2].obj
    /\ GetObject(Now, debug, 0).ret = last.arg

\* C2: a cloneRef step on a stack handle returns a new even handle whose cell
\* is {obj: the stack value, cnt: 1}; on a heap handle it returns the same
\* handle with that cell's cnt one higher; every other cell, the free-list
\* head (heap case) and the stack are as before.
C2_CloneRef ==
    [][last'.op = "cloneRef" =>
        LET h == last'.arg
            r == last'.ret
        IN  /\ ~last'.threw
            /\ stack' = stack
            /\ IF IsStackIdx(h)
               THEN /\ r % 2 = 0
                    /\ ~Live(handles, r)
                    /\ InSlab(slab', Shr1(r))
                    /\ SlabAt(slab', Shr1(r)) = Cell(stack[Shr1(h) + 1], 1)
                    /\ \A i \in 0..(Len(slab) - 1) :
                          i # Shr1(r) => SlabAt(slab', i) = SlabAt(slab, i)
               ELSE /\ r = h
                    /\ slab_next' = slab_next
                    /\ Len(slab') = Len(slab)
                    /\ SlabAt(slab', Shr1(h)).kind = "object"
                    /\ SlabAt(slab', Shr1(h)).obj = SlabAt(slab, Shr1(h)).obj
                    /\ SlabAt(slab', Shr1(h)).cnt = SlabAt(slab, Shr1(h)).cnt + 1
                    /\ \A i \in 0..(Len(slab) - 1) :
                          i # Shr1(h) => SlabAt(slab', i) = SlabAt(slab, i)
    ]_vars

\* C2 witness: a stack handle has just been promoted to heap handle 2 while
\* heap handle 0, cloned in place before, holds two references.
C2_Promoted ==
    /\ last.op = "cloneRef" /\ IsStackIdx(last.arg) /\ last.ret = 2
    /\ SlabAt(slab, 1) = Cell(stack[Shr1(last.arg) + 1], 1)
    /\ Live(handles, 0) /\ handles[0].cloned /\ SlabAt(slab, 0).cnt = 2

\* C3: a handle with refs = 1 + clones - drops > 0 has an occupied cell whose
\* cnt is exactly refs; once the drops match the N + 1 references (refs = 0)
\* the cell is freed: it is a free-list link again.
C3_CountMatchesReferences ==
    \A h \in DOMAIN handles :
        /\ InSlab(slab, Shr1(h))
        /\ IF handles[h].refs > 0
           THEN SlabAt(slab, Shr1(h)).kind = "object"
                /\ SlabAt(slab, Shr1(h)).cnt = handles[h].refs
           ELSE SlabAt(slab, Shr1(h)).kind = "number"

\* C3 witness: the drop that matched the last reference of a handle that had
\* been cloned has just freed its cell.
C3_ClonedThenFreed ==
    /\ last.op = "dropRef" /\ ~last.threw
    /\ handles[last.arg].refs = 0 /\ handles[last.arg].cloned
    /\ SlabAt(slab, Shr1(last.arg)).kind = "number"
    /\ slab_next = Shr1(last.arg)

(***************************************************************************)
(* Export wrappers: what generate_function emits for shared::Function      *)
(* descriptors, and what the emitted wrapper does when the host calls it.  *)
(***************************************************************************)
TYPE_NUMBER == "TYPE_NUMBER"
TYPE_BOOLEAN == "TYPE_BOOLEAN"
TYPE_BORROWED_STR == "TYPE_BORROWED_STR"
TYPE_STRING == "TYPE_STRING"
TYPE_JS_OWNED == "TYPE_JS_OWNED"
TYPE_JS_REF == "TYPE_JS_REF"
NoRet == "None"

Range(q) == {q[k] : k \in 1..Len(q)}

RECURSIVE Flatten(_)
Flatten(ss) == IF ss = <<>> THEN <<>> ELSE Head(ss) \o Flatten(Tail(ss))

\* the statements generate_function appends to arg_conversions for argument i
\* (0-based, as in arg{i})
ArgConversion(tag, i, d) ==
    CASE tag = TYPE_NUMBER -> IF d THEN <<[op |-> "_assertNum", arg |-> i]>> ELSE <<>>
      [] tag = TYPE_BOOLEAN -> IF d THEN <<[op |-> "_assertBoolean", arg |-> i]>> ELSE <<>>
      [] tag \in {TYPE_BORROWED_STR, TYPE_STRING} -> <<[op |-> "passStringToWasm", arg |-> i]>>
      [] tag = TYPE_JS_OWNED -> <<[op |-> "addHeapObject", arg |-> i]>>
      [] tag = TYPE_JS_REF -> <<[op |-> "addBorrowedObject", arg |-> i]>>

\* the statements generate_function appends to destructors for argument i
Destructor(tag, i) ==
    CASE tag = TYPE_BORROWED_STR -> <<[op |-> "wasm.__wbindgen_free", arg |-> i]>>
      [] tag = TYPE_JS_REF -> <<[op |-> "stack.pop", arg |-> i]>>
      [] OTHER -> <<>>

ArgConversions(args, d) ==
    Flatten([k \in 1..Len(args) |-> ArgConversion(args[k], k - 1, d)])
Destructors(args) ==
    Flatten([k \in 1..Len(args) |-> Destructor(args[k], k - 1)])

\* A wrapper emitted without try/finally: the destructors follow the call
\* and are skipped when it throws.
CleanupOnSuccessOnly(args, outcome) == Destructors(args) # <<>> /\ outcome = "returned"

\* `if destructors.len() == 0 { call } else { try { call } finally { destructors } }`:
\* once the call was started the destructors run whatever its outcome
CleanupRuns(args, outcome) == Destructors(args) # <<>>

\* typeof of the JS values the host passes
JsActuals == {"n1", "s1"}
TypeOf(v) == CASE v = "n1" -> "number" [] v = "s1" -> "string" [] OTHER -> "object"

\* Running arg_conversions in order: acc is [rt, threw, borrows, owned].  A
\* conversion that throws ends the wrapper: the statements are emitted before
\* the `try`.
ConvStep(acc, c, actuals, d) ==
    LET a == actuals[c.arg + 1] IN
    IF acc.threw THEN acc
    ELSE CASE c.op = "_assertNum" -> [acc EXCEPT !.threw = TypeOf(a) # "number"]
           [] c.op = "_assertBoolean" -> [acc EXCEPT !.threw = TypeOf(a) # "boolean"]
           [] c.op = "passStringToWasm" -> [acc EXCEPT !.threw = TypeOf(a) # "string"]
           [] c.op = "addHeapObject" ->
                LET r == AddHeapObject(acc.rt, d, a) IN
                [acc EXCEPT !.rt = r.rt, !.threw = r.threw,
                            !.owned = IF r.threw THEN @ ELSE Append(@, r.ret)]
           [] c.op = "addBorrowedObject" ->
                LET r == AddBorrowedObject(acc.rt, a) IN
                [acc EXCEPT !.rt = r.rt,
                            !.borrows = Append(@, [h |-> r.ret, v |-> a])]

RECURSIVE RunConversions(_, _, _, _)
RunConversions(acc, convs, actuals, d) ==
    IF convs = <<>> THEN acc
    ELSE RunConversions(ConvStep(acc, Head(convs), actuals, d), Tail(convs), actuals, d)

\* Running the destructors of the finally block on the stack
RECURSIVE RunDestructors(_, _)
RunDestructors(stk, ds) ==
    IF ds = <<>> THEN stk
    ELSE RunDestructors(IF Head(ds).op = "stack.pop" /\ Len(stk) > 0
                        THEN SubSeq(stk, 1, Len(stk) - 1) ELSE stk, Tail(ds))

NumPops(args) == Cardinality({k \in 1..Len(Destructors(args)) :
                                Destructors(args)[k].op = "stack.pop"})

\* the return conversions that call back into wasm or the slab and may throw
ConvertRetMayThrow(ret) == ret \in {TYPE_STRING, TYPE_JS_OWNED}

\* The exported functions of the program under generation.  None takes a
\* TYPE_JS_OWNED argument, so that the wrappers leave the slab as it is.
WrapFns ==
    { [arguments |-> <<TYPE_NUMBER>>, ret |-> NoRet],
      [arguments |-> <<TYPE_JS_REF>>, ret |-> NoRet],
      [arguments |-> <<TYPE_JS_REF, TYPE_STRING>>, ret |-> NoRet],
      [arguments |-> <<TYPE_BORROWED_STR, TYPE_JS_REF>>, ret |-> TYPE_STRING],
      [arguments |-> <<TYPE_JS_REF, TYPE_JS_REF>>, ret |-> NoRet],
      [arguments |-> <<TYPE_BOOLEAN, TYPE_JS_REF>>, ret |-> NoRet] }
ActualsFor(f) == [1..Len(f.arguments) -> JsActuals]

MaxDepth == 2
MaxBorrow == 2

SlabIdle == UNCHANGED <<debug, last>>
NotWrap == UNCHANGED <<mem, icall, module, orig, cx, phase, module_name,
                       asked, stale, instances, wasm_calls, codec>>

Finished(f, entry, called, ran, outcome) ==
    [arguments |-> f.arguments, entry |-> entry, pre |-> Len(stack),
     exit |-> Len(stack'), called |-> called, cleanups |-> IF ran = <<>> THEN 0 ELSE 1, ran |-> ran,
     outcome |-> outcome]

\* The host calls an exported wrapper (from the top level, or re-entrantly
\* while an outer wrapper's wasm call is running): arg_conversions run, then
\* the wasm call starts.
ExportCall(f, actuals) ==
    /\ Len(frames) < MaxDepth
    /\ Len(stack) + NumPops(f.arguments) <= MaxBorrow
    /\ LET acc == RunConversions([rt |-> Now, threw |-> FALSE, borrows |-> <<>>,
                                  owned |-> <<>>],
                                 ArgConversions(f.arguments, debug), actuals, debug)
       IN  /\ SetRT(acc.rt)
           /\ handles' = [x \in DOMAIN handles \cup Range(acc.owned) |->
                            IF x \in DOMAIN handles THEN handles[x] ELSE Held(Undefined)]
           /\ IF acc.threw
              THEN /\ frames' = frames
                   /\ done' = Finished(f, Len(stack), FALSE, <<>>, "conversion_threw")
              ELSE /\ frames' = Append(frames, [arguments |-> f.arguments, ret |-> f.ret,
                                                entry |-> Len(stack),
                                                borrows |-> acc.borrows])
                   /\ done' = done
    /\ lifo' = lifo
    /\ SlabIdle /\ NotWrap

\* The innermost wrapper's wasm call ends: it returns and convert_ret
\* completes, or the call threw, or convert_ret threw; then the wrapper exits.
ExportExit(outcome) ==
    /\ frames # <<>>
    /\ LET f == frames[Len(frames)]
           ran == IF CleanupRuns(f.arguments, outcome) THEN Destructors(f.arguments) ELSE <<>>
           own == {Shr1(f.borrows[k].h) : k \in 1..Len(f.borrows)}
           popped == {i \in 0..(Len(stack) - 1) : i >= Len(RunDestructors(stack, ran))}
       IN  /\ outcome = "convert_ret_threw" => ConvertRetMayThrow(f.ret)
           /\ stack' = RunDestructors(stack, ran)
           /\ frames' = SubSeq(frames, 1, Len(frames) - 1)
           /\ done' = Finished(f, f.entry, TRUE, ran, outcome)
           /\ lifo' = (lifo /\ popped = own)
    /\ UNCHANGED <<slab, slab_next, handles>>
    /\ SlabIdle /\ NotWrap

WrapNext ==
    \/ \E f \in WrapFns : \E actuals \in ActualsFor(f) : ExportCall(f, actuals)
    \/ \E outcome \in {"returned", "wasm_threw", "convert_ret_threw"} : ExportExit(outcome)

WrapSpecInit == debug \in BOOLEAN /\ SlabInit /\ WrapInit /\ ImpInit /\ GenInit /\ ExtInit
SpecWrap == WrapSpecInit /\ [][WrapNext]_vars

(***************************************************************************)
(* Claims about export wrappers (specification SpecWrap).                  *)
(***************************************************************************)

\* C4: when an export wrapper has returned or thrown, the borrow stack is as
\* deep as it was when the wrapper was entered (every addBorrowedObject push
\* of the wrapper was popped by it).
C4_DepthRestoredAtExit ==
    done.outcome # "none" => done.exit = done.entry

\* C6: while nested wrapper calls come and go, getObject of every borrowed
\* handle of every call in progress returns that call's value, and every
\* cleanup popped exactly the entries its own call had pushed.
C6_NestedBorrowsLifo ==
    /\ \A k \in 1..Len(frames) : \A b \in Range(frames[k].borrows) :
          LET g == GetObject(Now, debug, b.h) IN ~g.threw /\ g.ret = b.v
    /\ lifo

\* The part of C6 about getObject alone, which the code does satisfy.
BorrowedHandlesReadOwnValue ==
    \A k \in 1..Len(frames) : \A b \in Range(frames[k].borrows) :
        LET g == GetObject(Now, debug, b.h) IN ~g.threw /\ g.ret = b.v

\* C7: for a wrapper with destructors, the cleanup sequence has not run when
\* the wrapper ended before its wasm call; once the wasm call was made it
\* ran exactly once, after the call, as the same sequence (every destructor
\* in emitted order, one stack entry popped per stack.pop) whether the call
\* returned, threw, or the return conversion threw.
C7_CleanupOnceAfterCall ==
    (done.outcome # "none" /\ Destructors(done.arguments) # <<>>) =>
        IF done.called
        THEN /\ done.cleanups = 1
             /\ done.ran = Destructors(done.arguments)
             /\ done.exit = done.pre - NumPops(done.arguments)
        ELSE /\ done.cleanups = 0
             /\ done.ran = <<>>

\* C7 witness: a wrapper taking (BorrowedString, HostBorrowed) whose wasm call
\* threw has run its free and its pop.
C7_CleanupAfterThrow ==
    /\ done.outcome = "wasm_threw" /\ done.called
    /\ done.arguments = <<TYPE_BORROWED_STR, TYPE_JS_REF>>
    /\ Len(done.ran) = 2 /\ done.exit = done.pre - 1

(***************************************************************************)
(* Import wrappers: what generate_import emits, and what the emitted       *)
(* function does when the wasm module calls it.                            *)
(***************************************************************************)
MemWords == 3

\* getUint32Memory()[byteoff / 4 + plus] = v.  A typed array ignores a store
\* at an index that is not an integer or is out of range.  The values stored
\* here (a status, a handle, a length) are far below 2^32 and are stored as
\* they are.
ViewSet(m, byteoff, plus, v) ==
    IF byteoff % 4 = 0 /\ (byteoff \div 4) + plus < Len(m)
    THEN [m EXCEPT ![(byteoff \div 4) + plus + 1] = v]
    ELSE m
\* the u32 the wasm side loads at byte address addr
LoadWord(m, addr) == m[(addr \div 4) + 1]

ErrExpectedString == "Error: expected a string argument"

\* A catch block that stores the handle first and the status second.
CatchBlockSwapped(rt, m, d, exnptr, e) ==
    \* view[exnptr / 4] = addHeapObject(e); view[exnptr / 4 + 1] = 1;
    [rt |-> AddHeapObject(rt, d, e).rt,
     mem |-> ViewSet(ViewSet(m, exnptr, 0, AddHeapObject(rt, d, e).ret), exnptr, 1, 1),
     threw |-> FALSE, h |-> AddHeapObject(rt, d, e).ret]

\* the catch block once addHeapObject(e) gave r
CatchStore(r, m1, exnptr) ==
    IF r.threw THEN [rt |-> r.rt, mem |-> m1, threw |-> TRUE, h |-> 0]
    ELSE [rt |-> r.rt, mem |-> ViewSet(m1, exnptr, 1, r.ret), threw |-> FALSE,
          h |-> r.ret]

\* catch (e) { const view = getUint32Memory(); view[exnptr / 4] = 1;
\*             view[exnptr / 4 + 1] = addHeapObject(e); }
CatchBlock(rt, m, d, exnptr, e) ==
    CatchStore(AddHeapObject(rt, d, e), ViewSet(m, exnptr, 0, 1), exnptr)

\* The invocation arguments, evaluated left to right inside the body:
\* takeObject(arg{i}) for TYPE_JS_OWNED, getObject(arg{i}) for TYPE_JS_REF.
InvocArg(rt, d, tag, a) ==
    CASE tag = TYPE_JS_OWNED -> TakeObject(rt, d, a)
      [] tag = TYPE_JS_REF -> GetObject(rt, d, a)
      [] OTHER -> Res(rt, a, FALSE)

RECURSIVE InvocArgs(_, _, _, _, _)
InvocArgsFrom(r, d, tags, abi, k) ==
    IF r.threw THEN r ELSE InvocArgs(r.rt, d, tags, abi, k)
InvocArgs(rt, d, tags, abi, k) ==
    IF k > Len(tags) THEN Res(rt, Undefined, FALSE)
    ELSE InvocArgsFrom(InvocArg(rt, d, tags[k], abi[k]), d, tags, abi, k + 1)

Body(rt, m, threw, exn, ret, by) ==
    [rt |-> rt, mem |-> m, threw |-> threw, exn |-> exn, ret |-> ret, by |-> by]

\* return addHeapObject(<invoc>);
RetOwned(r, m) ==
    Body(r.rt, m, r.threw, "Error: corrupt slab", r.ret,
         IF r.threw THEN "conversion" ELSE "none")

\* The invocation of the host target (target = [threw, value]) and the
\* conversion of its result, once the invocation arguments gave a.
InvokeAndConvert(a, m, d, f, wasmretptr, target) ==
    IF a.threw THEN Body(a.rt, m, TRUE, "TypeError", 0, "arguments")
    ELSE IF target.threw THEN Body(a.rt, m, TRUE, target.value, 0, "target")
    ELSE CASE f.ret = TYPE_JS_OWNED -> RetOwned(AddHeapObject(a.rt, d, target.value), m)
           [] f.ret = TYPE_STRING ->
                \* passStringToWasm throws unless typeof(arg) === 'string';
                \* getUint32Memory()[wasmretptr / 4] = retlen
                IF TypeOf(target.value) # "string"
                THEN Body(a.rt, m, TRUE, ErrExpectedString, 0, "conversion")
                ELSE Body(a.rt, ViewSet(m, wasmretptr, 0, Len(target.value)), FALSE,
                          Undefined, 0, "none")
           [] OTHER -> Body(a.rt, m, FALSE, Undefined, 0, "none")

\* The body of the emitted import function.  The result is
\* [rt, mem, threw, exn, ret, by]: by says what threw.
ImportBody(rt, m, d, f, abi, wasmretptr, target) ==
    InvokeAndConvert(InvocArgs(rt, d, f.arguments, abi, 1), m, d, f, wasmretptr, target)

Caught(c, b) ==
    [rt |-> c.rt, mem |-> c.mem, propagated |-> c.threw, by |-> b.by,
     exn |-> b.exn, h |-> c.h, given |-> IF c.threw THEN {} ELSE {c.h}]

WrapBody(b, d, f, exnptr) ==
    IF f.catch /\ b.threw
    THEN Caught(CatchBlock(b.rt, b.mem, d, exnptr, b.exn), b)
    ELSE [rt |-> b.rt, mem |-> b.mem, propagated |-> b.threw, by |-> b.by,
          exn |-> b.exn, h |-> 0,
          given |-> IF f.ret = TYPE_JS_OWNED /\ ~b.threw THEN {b.ret} ELSE {}]

\* The emitted import function: with import.catch the body is wrapped in
\* try { ... } catch (e) { ... }; otherwise a throw of the body propagates.
ImportWrapper(rt, m, d, f, abi, wasmretptr, exnptr, target) ==
    WrapBody(ImportBody(rt, m, d, f, abi, wasmretptr, target), d, f, exnptr)

ImportFns ==
    { [arguments |-> a, ret |-> r, catch |-> c] :
        a \in { <<>>, <<TYPE_JS_OWNED>> },
        r \in { NoRet, TYPE_NUMBER, TYPE_JS_OWNED, TYPE_STRING },
        c \in BOOLEAN }
\* what the host target does: it throws a value or returns one
Targets == { [threw |-> TRUE, value |-> "e1"],
             [threw |-> FALSE, value |-> "n1"],
             [threw |-> FALSE, value |-> "s1"] }
\* byte offsets of the Rust caller's zeroed two-word exception record
ExnPtrs == { 4 * k : k \in 0..(MemWords - 2) }
\* byte offsets of the caller's length slot for a string return, off the record
RetPtrs(exnptr) == { 4 * k : k \in 0..(MemWords - 1) } \ {exnptr, exnptr + 4}

NotImp == UNCHANGED <<frames, done, lifo, module, orig, cx, phase, module_name,
                      asked, stale, instances, wasm_calls, codec>>

\* The words the wrapper can reach are the caller's frame for the call: the
\* record it zeroed before the call and its length slot.
Frame == [k \in 1..MemWords |-> 0]

\* The wasm module calls an imported function.  The caller passes handles it
\* owns for TYPE_JS_OWNED arguments, the address of a zeroed record when the
\* import catches (exnptr), and the address of a length slot when it returns
\* a string (wasmretptr).
ImportCall(f, abi, exnptr, wasmretptr, target) ==
    /\ Cardinality(Occupied(slab)) < MaxSlab
    /\ \A k \in 1..Len(abi) : abi[k] \in LiveHeap
    /\ \E w \in {ImportWrapper(Now, Frame, debug, f, abi, wasmretptr, exnptr, target)} :
       \E taken \in {IF w.by = "arguments" THEN {} ELSE Range(abi)} :
           /\ SetRT(w.rt)
           /\ mem' = w.mem
           /\ handles' = [x \in DOMAIN handles \cup w.given |->
                            IF x \in w.given THEN Held(Undefined)
                            ELSE IF x \in taken THEN Dropped(handles, x)[x]
                            ELSE handles[x]]
           /\ icall' = [catch |-> f.catch, ret |-> f.ret, by |-> w.by, exn |-> w.exn,
                        exnptr |-> exnptr, propagated |-> w.propagated, id |-> 1]
    /\ last' = NoOp
    /\ UNCHANGED debug /\ NotImp

\* The wasm side releases a handle it holds (__wbindgen_object_drop_ref).
ImportDropRef(h) ==
    /\ LET r == DropRef(Now, debug, h) IN
       /\ SetRT(r.rt)
       /\ handles' = IF r.threw THEN handles ELSE Dropped(handles, h)
    /\ icall' = NoICall
    /\ last' = NoOp
    /\ UNCHANGED <<debug, mem>> /\ NotImp

ImpNext ==
    \/ \E f \in ImportFns, target \in Targets :
         \E exnptr \in (IF f.catch THEN ExnPtrs ELSE {0}) :
            \E wasmretptr \in (IF f.ret = TYPE_STRING THEN RetPtrs(exnptr) ELSE {0}),
               abi \in [1..Len(f.arguments) -> LiveHeap] :
                  ImportCall(f, abi, exnptr, wasmretptr, target)
    \/ \E h \in LiveHeap : ImportDropRef(h)

ImpSpecInit ==
    /\ debug \in BOOLEAN /\ SlabInit /\ WrapInit /\ GenInit /\ ExtInit
    /\ mem = Frame /\ icall = NoICall
SpecImport == ImpSpecInit /\ [][ImpNext]_vars

(***************************************************************************)
(* Claims about import wrappers (specification SpecImport).                *)
(***************************************************************************)

\* C5 as stated: with catch, a throw of the target is not propagated and
\* leaves a nonzero status at exnptr and at the next word a handle to the
\* thrown value; when the target does not throw both words stay zero.
C5_CatchRecordOnlyWhenTargetThrows ==
    (icall.id = 1 /\ icall.catch) =>
        IF icall.by = "target"
        THEN /\ ~icall.propagated
             /\ LoadWord(mem, icall.exnptr) # 0
             /\ GetObject(Now, debug, LoadWord(mem, icall.exnptr + 4)).ret = icall.exn
        ELSE /\ LoadWord(mem, icall.exnptr) = 0
             /\ LoadWord(mem, icall.exnptr + 4) = 0

\* C5 amended: with catch, whatever throws inside the try block (the target,
\* or the conversion of its result: passStringToWasm of a non-string) is not
\* propagated and leaves a nonzero status at exnptr and at the next word a
\* live heap handle to the thrown value; when nothing in the try block throws
\* both words stay zero.
C5_CatchRecordWhenBodyThrows ==
    (icall.id = 1 /\ icall.catch) =>
        IF icall.by # "none"
        THEN /\ ~icall.propagated
             /\ LoadWord(mem, icall.exnptr) # 0
             /\ LoadWord(mem, icall.exnptr + 4) % 2 = 0
             /\ Live(handles, LoadWord(mem, icall.exnptr + 4))
             /\ ~GetObject(Now, debug, LoadWord(mem, icall.exnptr + 4)).threw
             /\ GetObject(Now, debug, LoadWord(mem, icall.exnptr + 4)).ret = icall.exn
        ELSE /\ ~icall.propagated
             /\ LoadWord(mem, icall.exnptr) = 0
             /\ LoadWord(mem, icall.exnptr + 4) = 0

\* C5 witness: the target of a catch import threw "e1" while handle 0 was
\* live; the record at byte 4 holds status 1 and handle 2, which reads "e1".
C5_TargetThrewAndWasCaught ==
    /\ icall.id = 1 /\ icall.catch /\ icall.by = "target" /\ icall.exnptr = 4
    /\ LoadWord(mem, 4) = 1 /\ LoadWord(mem, 8) = 2
    /\ GetObject(Now, debug, 2).ret = "e1"

(***************************************************************************)
(* The generator: Context bookkeeping.  `globals` and `imports` are the    *)
(* emitted text, kept as the sequence of fragments pushed onto them.       *)
(* exposed_globals is the memo of materialized support routines and        *)
(* required_internal_exports the set of internal exports the glue calls.   *)
(***************************************************************************)
None == "None"

Mark(c, key) == [c EXCEPT !.exposed_globals = @ \cup {key}]
\* a piece of emitted text: its leading words and, for an exported function or
\* a class, the functions it is made of
Fragment(text, body) == [text |-> text, body |-> body]
Emit(c, text) == [c EXCEPT !.globals = Append(@, Fragment(text, <<>>))]
EmitJs(c, text, body) == [c EXCEPT !.globals = Append(@, Fragment(text, body))]
Require(c, name) == [c EXCEPT !.required_internal_exports = @ \cup {name}]
Panic(c) == [c EXCEPT !.panicked = TRUE]
\* the text being built calls `wasm.name(..)`; wasm_refs is the set of the
\* wasm exports the generated text calls
Calls(c, name) == [c EXCEPT !.wasm_refs = @ \cup {name}]

\* a memo that never remembers
NeverExposed(c, key) == FALSE

\* `if !self.exposed_globals.insert(key) { return }`
Exposed(c, key) == key \in c.exposed_globals

expose_global_stack(c) ==
    IF Exposed(c, "stack") THEN c ELSE Emit(Mark(c, "stack"), "let stack")

expose_global_slab(c) ==
    IF Exposed(c, "slab") THEN c ELSE Emit(Mark(c, "slab"), "let slab")

expose_global_slab_next(c) ==
    IF Exposed(c, "slab_next") THEN c ELSE Emit(Mark(c, "slab_next"), "let slab_next")

expose_drop_ref(c) ==
    IF Exposed(c, "drop_ref") THEN c
    ELSE Emit(expose_global_slab_next(expose_global_slab(Mark(c, "drop_ref"))),
              "function dropRef")

expose_get_object(c) ==
    IF Exposed(c, "get_object") THEN c
    ELSE Emit(expose_global_slab(expose_global_stack(Mark(c, "get_object"))),
              "function getObject")

expose_check_token(c) ==
    IF Exposed(c, "check_token") THEN c
    ELSE Emit(Mark(c, "check_token"), "function _checkToken")

expose_assert_num(c) ==
    IF Exposed(c, "assert_num") THEN c
    ELSE Emit(Mark(c, "assert_num"), "function _assertNum")

expose_assert_bool(c) ==
    IF Exposed(c, "assert_bool") THEN c
    ELSE Emit(Mark(c, "assert_bool"), "function _assertBoolean")

expose_text_encoder(c) ==
    IF Exposed(c, "text_encoder") THEN c
    ELSE Emit(Mark(c, "text_encoder"), "function textEncoder")

expose_text_decoder(c) ==
    IF Exposed(c, "text_decoder") THEN c
    ELSE Emit(Mark(c, "text_decoder"), "function textDecoder")

expose_uint8_memory(c) ==
    IF Exposed(c, "uint8_memory") THEN c
    ELSE Emit(Mark(c, "uint8_memory"), "function getUint8Memory")

expose_uint32_memory(c) ==
    IF Exposed(c, "uint32_memory") THEN c
    ELSE Emit(Mark(c, "uint32_memory"), "function getUint32Memory")

\* a passStringToWasm whose call of the allocator is not recorded
expose_pass_string_to_wasm_unrecorded(c) ==
    IF Exposed(c, "pass_string_to_wasm") THEN c
    ELSE IF c.nodejs
         THEN Emit(Calls(Mark(c, "pass_string_to_wasm"), "__wbindgen_malloc"),
                   "function passStringToWasm")
         ELSE Emit(Calls(expose_uint8_memory(expose_text_encoder(
                             Mark(c, "pass_string_to_wasm"))),
                         "__wbindgen_malloc"),
                   "function passStringToWasm")

expose_pass_string_to_wasm(c) ==
    IF Exposed(c, "pass_string_to_wasm") THEN c
    ELSE IF c.nodejs
         THEN Emit(Calls(Require(Mark(c, "pass_string_to_wasm"), "__wbindgen_malloc"),
                         "__wbindgen_malloc"),
                   "function passStringToWasm")
         ELSE Emit(Calls(expose_uint8_memory(expose_text_encoder(
                             Require(Mark(c, "pass_string_to_wasm"), "__wbindgen_malloc"))),
                         "__wbindgen_malloc"),
                   "function passStringToWasm")

expose_get_string_from_wasm(c) ==
    IF Exposed(c, "get_string_from_wasm") THEN c
    ELSE IF c.nodejs
         THEN Emit(Mark(c, "get_string_from_wasm"), "function getStringFromWasm")
         ELSE Emit(expose_uint8_memory(expose_text_decoder(
                       Mark(c, "get_string_from_wasm"))),
                   "function getStringFromWasm")

expose_borrowed_objects(c) ==
    IF Exposed(c, "borrowed_objects") THEN c
    ELSE Emit(expose_global_stack(Mark(c, "borrowed_objects")),
              "function addBorrowedObject")

\* a takeObject that materializes getObject only
expose_take_object_without_drop_ref(c) ==
    IF Exposed(c, "take_object") THEN c
    ELSE Emit(expose_get_object(Mark(c, "take_object")), "function takeObject")

expose_take_object(c) ==
    IF Exposed(c, "take_object") THEN c
    ELSE Emit(expose_drop_ref(expose_get_object(Mark(c, "take_object"))),
              "function takeObject")

expose_add_heap_object(c) ==
    IF Exposed(c, "add_heap_object") THEN c
    ELSE Emit(expose_global_slab_next(expose_global_slab(Mark(c, "add_heap_object"))),
              "function addHeapObject")

expose_assert_class(c) ==
    IF Exposed(c, "assert_class") THEN c
    ELSE Emit(Mark(c, "assert_class"), "function _assertClass")

(***************************************************************************)
(* SubContext: what generating one export or one import does to the        *)
(* Context.  A panic aborts the run: nothing is generated after it.        *)
(***************************************************************************)
EmitUnlessPanicked(c, text, body) == IF c.panicked THEN c ELSE EmitJs(c, text, body)

\* Type tags are chars.  The tags of the custom types are the chars from
\* TYPE_CUSTOM_START on; `custom as u32` is the char's code, and the by-ref tag
\* of a custom type is its by-value tag with TYPE_CUSTOM_REF_FLAG set.
MaxChar == 11
TYPE_CUSTOM_REF_FLAG == 1
Char(n) == "char" \o ToString(n)
AsU32(tag) == CHOOSE n \in 0..MaxChar : Char(n) = tag
\* n & flag != 0 and n | flag, for a flag that is a power of two
HasFlag(n, flag) == (n \div flag) % 2 = 1
WithFlag(n, flag) == IF HasFlag(n, flag) THEN n ELSE n + flag
PrimitiveTags == {TYPE_NUMBER, TYPE_BOOLEAN, TYPE_BORROWED_STR, TYPE_STRING,
                  TYPE_JS_OWNED, TYPE_JS_REF}
IsCustomRef(tag) == tag \notin PrimitiveTags /\ HasFlag(AsU32(tag), TYPE_CUSTOM_REF_FLAG)
\* self.cx.custom_type_names[&custom] panics when the tag is not registered
Registered(c, tag) == tag \in DOMAIN c.custom_type_names

(***************************************************************************)
(* The text generate_function builds: the declaration name(arg0, arg1, ..) *)
(* and the call wasm.f(passed_args).                                       *)
(***************************************************************************)
ArgName(i) == "arg" \o ToString(i)

RECURSIVE ParamsFrom(_, _)
ParamsFrom(args, i) ==
    IF args = <<>> THEN ""
    ELSE (IF i > 0 THEN ", " ELSE "") \o ArgName(i) \o ParamsFrom(Tail(args), i + 1)

\* the `pass` closure
Pass(passed_args, arg) ==
    IF Len(passed_args) > 0 THEN passed_args \o ", " \o arg ELSE arg

\* an argument loop that passes one slot for every tag, strings included
PassArgOneSlot(passed_args, tag, i) ==
    CASE tag \in {TYPE_BORROWED_STR, TYPE_STRING} ->
            Pass(passed_args, "ptr" \o ToString(i))
      [] OTHER -> Pass(passed_args, ArgName(i))

\* generate_function, what one iteration of the argument loop passes
PassArg(passed_args, tag, i) ==
    CASE tag = TYPE_NUMBER -> Pass(passed_args, ArgName(i))
      [] tag = TYPE_BOOLEAN -> Pass(passed_args, ArgName(i) \o " ? 1 : 0")
      [] tag \in {TYPE_BORROWED_STR, TYPE_STRING} ->
            Pass(Pass(passed_args, "ptr" \o ToString(i)), "len" \o ToString(i))
      [] tag \in {TYPE_JS_OWNED, TYPE_JS_REF} -> Pass(passed_args, "idx" \o ToString(i))
      [] OTHER -> IF IsCustomRef(tag)
                  THEN Pass(passed_args, ArgName(i) \o ".ptr")
                  ELSE Pass(passed_args, "ptr" \o ToString(i))

RECURSIVE PassedFrom(_, _, _)
PassedFrom(passed_args, args, i) ==
    IF args = <<>> THEN passed_args
    ELSE PassedFrom(PassArg(passed_args, Head(args), i), Tail(args), i + 1)

\* the (js, ts) generate_function returns; `function` and `is_method` are kept
\* next to the text as the inputs it was built from
Js(prefix, wasm_name, is_method, function) ==
    [ prefix |-> prefix,
      decl |-> function.name \o "(" \o ParamsFrom(function.arguments, 0) \o ")",
      call |-> "wasm." \o wasm_name \o "("
               \o PassedFrom(IF is_method THEN "this.ptr" ELSE "", function.arguments, 0)
               \o ")",
      function |-> function, is_method |-> is_method ]

\* shared::struct_function_export_name
struct_function_export_name(class, name) == class \o "_" \o name

\* generate_function, one iteration of the argument loop
ExportArg(c, d, tag) ==
    CASE tag = TYPE_NUMBER -> IF d THEN expose_assert_num(c) ELSE c
      [] tag = TYPE_BOOLEAN -> IF d THEN expose_assert_bool(c) ELSE c
      [] tag = TYPE_STRING -> expose_pass_string_to_wasm(c)
      [] tag = TYPE_BORROWED_STR ->
            Calls(Require(expose_pass_string_to_wasm(c), "__wbindgen_free"),
                  "__wbindgen_free")
      [] tag = TYPE_JS_OWNED -> expose_add_heap_object(c)
      [] tag = TYPE_JS_REF -> expose_borrowed_objects(c)
      [] OTHER -> IF ~Registered(c, tag) THEN Panic(c)
                  ELSE IF d THEN expose_assert_class(c) ELSE c

RECURSIVE ExportArgs(_, _, _)
ExportArgs(c, d, args) ==
    IF args = <<>> \/ c.panicked THEN c
    ELSE ExportArgs(ExportArg(c, d, Head(args)), d, Tail(args))

\* generate_function, convert_ret
ExportRet(c, ret) ==
    IF c.panicked THEN c ELSE
    CASE ret = NoRet -> c
      [] ret \in {TYPE_NUMBER, TYPE_BOOLEAN} -> c
      [] ret = TYPE_JS_OWNED -> expose_take_object(c)
      [] ret = TYPE_STRING ->
            Calls(Calls(Calls(
                Require(Require(Require(expose_get_string_from_wasm(c),
                    "__wbindgen_boxed_str_ptr"), "__wbindgen_boxed_str_len"),
                    "__wbindgen_boxed_str_free"),
                "__wbindgen_boxed_str_ptr"), "__wbindgen_boxed_str_len"),
                "__wbindgen_boxed_str_free")
      [] ret \in {TYPE_JS_REF, TYPE_BORROWED_STR} -> Panic(c)
      [] OTHER -> IF IsCustomRef(ret) \/ ~Registered(c, ret) THEN Panic(c) ELSE c

generate_function(c, d, function) ==
    ExportRet(ExportArgs(c, d, function.arguments), function.ret)

\* an entry that is replaced by the newest function instead of extended
AddToClassOverwrite(c, class, js) ==
    IF \E k \in 1..Len(c.exported_classes) : c.exported_classes[k].class = class
    THEN [c EXCEPT !.exported_classes =
            [k \in 1..Len(@) |-> IF @[k].class = class
                                 THEN [@[k] EXCEPT !.contents = <<js>>]
                                 ELSE @[k]]]
    ELSE [c EXCEPT !.exported_classes = Append(@, [class |-> class, contents |-> <<js>>])]

\* exported_classes.entry(class).or_insert(default) then push onto contents
AddToClass(c, class, js) ==
    IF \E k \in 1..Len(c.exported_classes) : c.exported_classes[k].class = class
    THEN [c EXCEPT !.exported_classes =
            [k \in 1..Len(@) |-> IF @[k].class = class
                                 THEN [@[k] EXCEPT !.contents = Append(@, js)]
                                 ELSE @[k]]]
    ELSE [c EXCEPT !.exported_classes = Append(@, [class |-> class, contents |-> <<js>>])]

generate_export_for_class(c, d, export) ==
    IF generate_function(c, d, export.function).panicked
    THEN generate_function(c, d, export.function)
    ELSE AddToClass(Calls(generate_function(c, d, export.function),
                          struct_function_export_name(export.class, export.function.name)),
                    export.class,
                    Js(IF export.method THEN "" ELSE "static",
                       struct_function_export_name(export.class, export.function.name),
                       export.method, export.function))

generate_export(c, d, export) ==
    IF export.class # None
    THEN generate_export_for_class(c, d, export)
    ELSE EmitUnlessPanicked(Calls(generate_function(c, d, export.function),
                                  export.function.name),
                            "export function " \o export.function.name,
                            <<Js("function", export.function.name, FALSE, export.function)>>)

\* shared::mangled_import_name
mangled_import_name(class, name) ==
    IF class = None THEN "__wbg_f_" \o name
    ELSE "__wbg_s_" \o class \o "_" \o name

\* generate_import, one iteration of the argument loop
ImportArg(c, tag) ==
    CASE tag \in {TYPE_NUMBER, TYPE_BOOLEAN} -> c
      [] tag = TYPE_BORROWED_STR -> expose_get_string_from_wasm(c)
      [] tag = TYPE_STRING ->
            Calls(Require(expose_get_string_from_wasm(c), "__wbindgen_free"),
                  "__wbindgen_free")
      [] tag = TYPE_JS_OWNED -> expose_take_object(c)
      [] tag = TYPE_JS_REF -> expose_get_object(c)
      [] OTHER -> Panic(c)

RECURSIVE ImportArgs(_, _)
ImportArgs(c, args) ==
    IF args = <<>> \/ c.panicked THEN c
    ELSE ImportArgs(ImportArg(c, Head(args)), Tail(args))

\* a return conversion that lets every other tag through as it is
ImportRetPassThrough(c, ret) ==
    IF c.panicked THEN c
    ELSE CASE ret = TYPE_JS_OWNED -> expose_add_heap_object(c)
           [] ret = TYPE_STRING -> expose_uint32_memory(expose_pass_string_to_wasm(c))
           [] OTHER -> c

ImportRet(c, ret) ==
    IF c.panicked THEN c
    ELSE CASE ret \in {NoRet, TYPE_NUMBER, TYPE_BOOLEAN} -> c
           [] ret = TYPE_JS_OWNED -> expose_add_heap_object(c)
           [] ret = TYPE_STRING -> expose_uint32_memory(expose_pass_string_to_wasm(c))
           [] OTHER -> Panic(c)

ImportCatch(c, catch) ==
    IF c.panicked \/ ~catch THEN c
    ELSE expose_add_heap_object(expose_uint32_memory(c))

\* import.class.as_ref().unwrap_or(&import.function.name)
name_to_import(import) ==
    IF import.class # None THEN import.class ELSE import.function.name

\* the statement `import { name } from 'module';`
ImportStatement(name, mod) == [name |-> name, module |-> mod]

\* `import { name } from 'module'`, once per imported name
ImportFrom(c, import) ==
    IF import.module = None THEN c
    ELSE IF name_to_import(import) \in c.imported_names
         THEN c
         ELSE [c EXCEPT
                 !.imported_names = @ \cup {name_to_import(import)},
                 !.imports = Append(@, ImportStatement(name_to_import(import),
                                                      import.module))]

RecordRewrite(c, import) ==
    [c EXCEPT !.imports_to_rewrite =
        @ \cup {mangled_import_name(import.class, import.function.name)}]

generate_import(c, import) ==
    EmitUnlessPanicked(
        ImportCatch(ImportRet(ImportArgs(RecordRewrite(ImportFrom(c, import), import),
                                         import.function.arguments),
                              import.function.ret),
                    import.catch),
        "export function " \o mangled_import_name(import.class, import.function.name),
        <<>>)

RECURSIVE GenerateExports(_, _, _)
GenerateExports(c, d, exports) ==
    IF exports = <<>> \/ c.panicked THEN c
    ELSE GenerateExports(generate_export(c, d, Head(exports)), d, Tail(exports))

RECURSIVE GenerateImports(_, _)
GenerateImports(c, imports) ==
    IF imports = <<>> \/ c.panicked THEN c
    ELSE GenerateImports(generate_import(c, Head(imports)), Tail(imports))

\* SubContext::generate
generate(c, d, program) ==
    GenerateImports(GenerateExports(c, d, program.exports), program.imports)

(***************************************************************************)
(* The wasm module: a sequence of sections.  An import entry is            *)
(* [module, field], an export entry [field, internal]; the entries of the  *)
(* other sections are opaque.                                              *)
(***************************************************************************)
Section(kind, entries) == [kind |-> kind, entries |-> entries]

\* str::starts_with
StartsWith(str, prefix) ==
    Len(str) >= Len(prefix) /\ SubSeq(str, 1, Len(prefix)) = prefix

IsImport(section) == section.kind = "Import"
IsExport(section) == section.kind = "Export"

\* Module::import_section: the first import section, if any
wasm_import_needed(mod, name) ==
    /\ SelectSeq(mod, IsImport) # <<>>
    /\ \E k \in 1..Len(Head(SelectSeq(mod, IsImport)).entries) :
          /\ Head(SelectSeq(mod, IsImport)).entries[k].module = "env"
          /\ Head(SelectSeq(mod, IsImport)).entries[k].field = name

\* the redirect without truncate(0): "./" and the name are pushed onto the old text
RedirectAppends(old, name) == old \o "./" \o name

\* truncate(0); push_str("./"); push_str(module_name)
Redirect(old, name) == "./" \o name

\* rewrite_imports ignoring imports_to_rewrite
RewriteImportPrefixOnly(import, name, to_rewrite) ==
    IF StartsWith(import.field, "__wbindgen")
    THEN [import EXCEPT !.module = Redirect(@, name)]
    ELSE import

\* rewrite_imports, the body of the loop over the entries
RewriteImport(import, name, to_rewrite) ==
    IF StartsWith(import.field, "__wbindgen")
    THEN [import EXCEPT !.module = Redirect(@, name)]
    ELSE IF import.field \in to_rewrite
         THEN [import EXCEPT !.module = Redirect(@, name)]
         ELSE import

RECURSIVE RewriteEntries(_, _, _)
RewriteEntries(entries, name, to_rewrite) ==
    IF entries = <<>> THEN <<>>
    ELSE <<RewriteImport(Head(entries), name, to_rewrite)>>
         \o RewriteEntries(Tail(entries), name, to_rewrite)

RECURSIVE rewrite_imports(_, _, _)
rewrite_imports(mod, name, to_rewrite) ==
    IF mod = <<>> THEN <<>>
    ELSE <<IF IsImport(Head(mod))
           THEN Section("Import", RewriteEntries(Head(mod).entries, name, to_rewrite))
           ELSE Head(mod)>>
         \o rewrite_imports(Tail(mod), name, to_rewrite)

\* the retain predicate without the required set
KeepUnprefixedOnly(export, required) == ~StartsWith(export.field, "__wbindgen")

\* unexport_unused_internal_exports, the retain predicate
KeepExport(export, required) ==
    ~StartsWith(export.field, "__wbindgen") \/ export.field \in required

\* Vec::retain
RECURSIVE Retain(_, _)
Retain(entries, required) ==
    IF entries = <<>> THEN <<>>
    ELSE IF KeepExport(Head(entries), required)
         THEN <<Head(entries)>> \o Retain(Tail(entries), required)
         ELSE Retain(Tail(entries), required)

RECURSIVE unexport_unused_internal_exports(_, _)
unexport_unused_internal_exports(mod, required) ==
    IF mod = <<>> THEN <<>>
    ELSE <<IF IsExport(Head(mod))
           THEN Section("Export", Retain(Head(mod).entries, required))
           ELSE Head(mod)>>
         \o unexport_unused_internal_exports(Tail(mod), required)

(***************************************************************************)
(* finalize: the classes, then the catalog of support routines the module  *)
(* imports from `env`, then the two rewriting passes.                      *)
(***************************************************************************)
\* shared::free_function
free_function(class) == "__wbg_" \o class \o "_free"

RECURSIVE WriteClassesFrom(_, _, _)
WriteClassesFrom(c, d, classes) ==
    IF classes = <<>> THEN c
    ELSE WriteClassesFrom(
            EmitJs(Calls(IF d THEN expose_check_token(c) ELSE c,
                         free_function(Head(classes).class)),
                   "export class " \o Head(classes).class, Head(classes).contents),
            d, Tail(classes))

\* mem::replace(&mut self.exported_classes, Default::default()), then the loop
write_classes(c, d) ==
    WriteClassesFrom([c EXCEPT !.exported_classes = <<>>], d, c.exported_classes)

Catalog ==
    << "__wbindgen_object_clone_ref", "__wbindgen_object_drop_ref",
       "__wbindgen_string_new", "__wbindgen_number_new", "__wbindgen_number_get",
       "__wbindgen_undefined_new", "__wbindgen_null_new", "__wbindgen_is_null",
       "__wbindgen_is_undefined", "__wbindgen_boolean_new", "__wbindgen_boolean_get",
       "__wbindgen_symbol_new", "__wbindgen_is_symbol", "__wbindgen_throw",
       "__wbindgen_string_get" >>

\* the closure handed to bind for each name
BindBody(c, name) ==
    CASE name = "__wbindgen_object_clone_ref" ->
            expose_get_object(expose_add_heap_object(c))
      [] name = "__wbindgen_object_drop_ref" -> expose_drop_ref(c)
      [] name = "__wbindgen_string_new" ->
            expose_get_string_from_wasm(expose_add_heap_object(c))
      [] name \in {"__wbindgen_number_new", "__wbindgen_undefined_new",
                   "__wbindgen_null_new", "__wbindgen_boolean_new"} ->
            expose_add_heap_object(c)
      [] name = "__wbindgen_number_get" ->
            expose_uint8_memory(expose_get_object(c))
      [] name \in {"__wbindgen_is_null", "__wbindgen_is_undefined",
                   "__wbindgen_boolean_get", "__wbindgen_is_symbol"} ->
            expose_get_object(c)
      [] name = "__wbindgen_symbol_new" ->
            expose_add_heap_object(expose_get_string_from_wasm(c))
      [] name = "__wbindgen_throw" -> expose_get_string_from_wasm(c)
      [] name = "__wbindgen_string_get" ->
            expose_uint32_memory(expose_get_object(expose_pass_string_to_wasm(c)))

\* a bind that does not ask whether the module imports the routine
BindAlways(c, mod, name) == Emit(BindBody(c, name), "export const " \o name)

bind(c, mod, name) ==
    IF ~wasm_import_needed(mod, name) THEN c
    ELSE Emit(BindBody(c, name), "export const " \o name)

RECURSIVE BindAll(_, _, _)
BindAll(c, mod, names) ==
    IF names = <<>> THEN c ELSE BindAll(bind(c, mod, Head(names)), mod, Tail(names))

\* the Context after finalize
FinalizeCx(c, d, mod) == BindAll(write_classes(c, d), mod, Catalog)

\* the module after finalize
FinalizeModule(c, mod, name) ==
    unexport_unused_internal_exports(
        rewrite_imports(mod, name, c.imports_to_rewrite),
        c.required_internal_exports)

(***************************************************************************)
(* The generation pass: a module and a program are handed to the Context,  *)
(* generate runs over the program, finalize rewrites the module.           *)
(***************************************************************************)
MaxImports == 2

ImportPool ==
    { [module |-> "env", field |-> "__wbindgen_object_drop_ref"],
      [module |-> "env", field |-> "__wbindgen_string_get"],
      [module |-> "env", field |-> "__wbindgen_other"],
      [module |-> "other", field |-> "__wbindgen_throw"],
      [module |-> "env", field |-> "__wbg_f_foo"],
      [module |-> "env", field |-> "memcpy"] }

ExportList ==
    << [field |-> "__wbindgen_malloc", internal |-> 0],
       [field |-> "greet", internal |-> 1],
       [field |-> "__wbindgen_free", internal |-> 2],
       [field |-> "__wbindgen_global_argument_ptr", internal |-> 3] >>

ExportFields == { ExportList[k].field : k \in 1..Len(ExportList) }

SeqsUpTo(S, n) == UNION { [1..k -> S] : k \in 0..n }

\* a module with the given import and export entries; an empty section is absent
MkModule(imports, exports) ==
    <<Section("Type", <<"t0", "t1">>)>>
    \o (IF imports = <<>> THEN <<>> ELSE <<Section("Import", imports)>>)
    \o <<Section("Function", <<"f0">>)>>
    \o (IF exports = <<>> THEN <<>> ELSE <<Section("Export", exports)>>)
    \o <<Section("Code", <<"c0">>)>>

Function(name, arguments, ret) == [name |-> name, arguments |-> arguments, ret |-> ret]
Export(class, function) == [class |-> class, method |-> FALSE, function |-> function]
Method(class, function) == [class |-> class, method |-> TRUE, function |-> function]
Import(mod, class, catch, function) ==
    [module |-> mod, class |-> class, method |-> FALSE, js_new |-> FALSE,
     catch |-> catch, function |-> function]

Programs ==
    { [exports |-> <<>>, imports |-> <<>>],
      [exports |-> <<Export(None, Function("greet", <<TYPE_STRING>>, TYPE_STRING))>>,
       imports |-> <<Import("./foo", None, FALSE, Function("foo", <<>>, NoRet))>>],
      [exports |-> <<Export(None, Function("greet", <<TYPE_BORROWED_STR, TYPE_JS_REF>>,
                                           TYPE_JS_OWNED))>>,
       imports |-> <<Import(None, None, TRUE,
                            Function("bar", <<TYPE_STRING>>, TYPE_NUMBER))>>],
      [exports |-> <<Export(None, Function("bad", <<>>, TYPE_JS_REF))>>,
       imports |-> <<>>] }

ModuleNames == {"lib", "app"}

NotGen == UNCHANGED <<debug, slab, slab_next, stack, handles, last, frames, done, lifo,
                      mem, icall, asked, stale, instances, wasm_calls, codec>>

\* SubContext::generate over the whole program
Generate(program) ==
    /\ phase = "new"
    /\ cx' = generate(cx, debug, program)
    /\ phase' = "generated"
    /\ UNCHANGED <<module, orig, module_name>>
    /\ NotGen

\* Context::finalize
Finalize(name) ==
    /\ phase = "generated"
    /\ ~cx.panicked
    /\ \E c \in {FinalizeCx(cx, debug, module)} :
          /\ cx' = c
          /\ module' = FinalizeModule(c, module, name)
    /\ module_name' = name
    /\ phase' = "finalized"
    /\ UNCHANGED orig
    /\ NotGen

\* the two rewriting passes of finalize applied once more to its result
RewriteAgain ==
    /\ phase = "finalized"
    /\ module' = FinalizeModule(cx, module, module_name)
    /\ phase' = "rewritten"
    /\ UNCHANGED <<orig, cx, module_name>>
    /\ NotGen

GenNext ==
    \/ \E program \in Programs : Generate(program)
    \/ \E name \in ModuleNames : Finalize(name)
    \/ RewriteAgain

GenSpecInit ==
    /\ debug \in BOOLEAN /\ SlabInit /\ WrapInit /\ ImpInit /\ ExtInit
    /\ \E imports \in SeqsUpTo(ImportPool, MaxImports), fields \in SUBSET ExportFields :
          module = MkModule(imports, SelectSeq(ExportList, LAMBDA e : e.field \in fields))
    /\ orig = module
    /\ \E nodejs \in BOOLEAN : cx = [NoCx EXCEPT !.nodejs = nodejs]
    /\ phase = "new"
    /\ module_name = ""

SpecRewrite == GenSpecInit /\ [][GenNext]_vars

\* the entries of the import section, of the export section, and the rest
ImportsOf(mod) ==
    IF SelectSeq(mod, IsImport) = <<>> THEN <<>> ELSE Head(SelectSeq(mod, IsImport)).entries
ExportsOf(mod) ==
    IF SelectSeq(mod, IsExport) = <<>> THEN <<>> ELSE Head(SelectSeq(mod, IsExport)).entries
OthersOf(mod) == SelectSeq(mod, LAMBDA section : ~IsImport(section) /\ ~IsExport(section))
KindsOf(mod) == [k \in 1..Len(mod) |-> mod[k].kind]
Target == "./" \o module_name

(***************************************************************************)
(* C8: module rewriting is idempotent.  Applying rewrite_imports and then  *)
(* unexport_unused_internal_exports a second time, with the same module    *)
(* name, imports_to_rewrite and required_internal_exports, leaves the      *)
(* import and export sections as the first application left them.          *)
(***************************************************************************)
C8_RewriteIdempotent ==
    [][(phase = "finalized" /\ phase' = "rewritten") =>
          /\ ImportsOf(module') = ImportsOf(module)
          /\ ExportsOf(module') = ExportsOf(module)]_vars

\* a second application to a module whose first application changed both sections
C8_RewrittenTwice ==
    /\ phase = "rewritten"
    /\ ImportsOf(module) # ImportsOf(orig)
    /\ Len(ExportsOf(module)) < Len(ExportsOf(orig))

(***************************************************************************)
(* C9, as stated: after finalize an import entry has been redirected to    *)
(* the glue module if and only if it is the `env` import of a support      *)
(* routine of the catalog or its field was recorded in imports_to_rewrite  *)
(* by generate_import.                                                     *)
(***************************************************************************)
Requested(import) ==
    \/ import.module = "env" /\ import.field \in Range(Catalog)
    \/ import.field \in cx.imports_to_rewrite

C9_RedirectedIffRequested ==
    phase = "finalized" =>
        \A k \in 1..Len(ImportsOf(orig)) :
            (ImportsOf(module)[k].module = Target) <=> Requested(ImportsOf(orig)[k])

(***************************************************************************)
(* C9, amended: after finalize an import entry has been redirected to the  *)
(* glue module if and only if its field begins with the reserved prefix    *)
(* or was recorded in imports_to_rewrite; every other entry keeps its      *)
(* module name, and no field name changes.                                 *)
(***************************************************************************)
C9_RedirectedIffPrefixedOrRecorded ==
    phase = "finalized" =>
        /\ Len(ImportsOf(module)) = Len(ImportsOf(orig))
        /\ \A k \in 1..Len(ImportsOf(orig)) :
              /\ ImportsOf(module)[k].field = ImportsOf(orig)[k].field
              /\ (ImportsOf(module)[k].module = Target) <=>
                    \/ StartsWith(ImportsOf(orig)[k].field, "__wbindgen")
                    \/ ImportsOf(orig)[k].field \in cx.imports_to_rewrite
              /\ ImportsOf(module)[k].module \in {Target, ImportsOf(orig)[k].module}

\* a recorded field was redirected next to an import that was left alone
C9_RecordedRedirectedOtherKept ==
    /\ phase = "finalized"
    /\ \E j, k \in 1..Len(ImportsOf(orig)) :
          /\ ~StartsWith(ImportsOf(orig)[j].field, "__wbindgen")
          /\ ImportsOf(orig)[j].field \in cx.imports_to_rewrite
          /\ ImportsOf(module)[j].module = Target
          /\ ImportsOf(module)[k] = ImportsOf(orig)[k]

(***************************************************************************)
(* C10: after finalize the export section holds exactly the original       *)
(* export entries whose field does not begin with the reserved prefix or   *)
(* is in required_internal_exports, in their original order; the import    *)
(* entries keep their order and count; no other section is modified.       *)
(***************************************************************************)
C10_ExportsFilteredRestKept ==
    phase = "finalized" =>
        /\ ExportsOf(module) =
              SelectSeq(ExportsOf(orig),
                        LAMBDA e : \/ ~StartsWith(e.field, "__wbindgen")
                                   \/ e.field \in cx.required_internal_exports)
        /\ Len(ImportsOf(module)) = Len(ImportsOf(orig))
        /\ \A k \in 1..Len(ImportsOf(orig)) :
              ImportsOf(module)[k].field = ImportsOf(orig)[k].field
        /\ OthersOf(module) = OthersOf(orig)
        /\ KindsOf(module) = KindsOf(orig)

\* one prefixed export was removed, a required one and a user export were kept
C10_PrunedAndKept ==
    /\ phase = "finalized"
    /\ Len(ExportsOf(module)) < Len(ExportsOf(orig))
    /\ \E j, k \in 1..Len(ExportsOf(module)) :
          /\ StartsWith(ExportsOf(module)[j].field, "__wbindgen")
          /\ ~StartsWith(ExportsOf(module)[k].field, "__wbindgen")
    /\ ImportsOf(module) # ImportsOf(orig)

(***************************************************************************)
(* The generation pass, one descriptor at a time: the custom types of the  *)
(* programs are registered, then exports and imports are generated in any  *)
(* order, then finalize runs (and may be asked to run again).              *)
(***************************************************************************)
MaxAsked == 2
MaxRegistrations == 2

\* a registration that inserts both tags and asserts nothing
AddCustomUnchecked(c, custom) ==
    [c EXCEPT !.custom_type_names =
        [t \in DOMAIN @ \cup {custom.descriptor,
                              Char(WithFlag(AsU32(custom.descriptor), 1))} |->
            IF t \in {custom.descriptor, Char(WithFlag(AsU32(custom.descriptor), 1))}
            THEN custom.name ELSE @[t]]]

\* add_custom_type_names, one iteration: the inserts happen, then the asserts
AddCustom(c, custom) ==
    IF c.panicked THEN c
    ELSE IF custom.descriptor \in DOMAIN c.custom_type_names
    THEN Panic([c EXCEPT !.custom_type_names =
                    [t \in DOMAIN @ |-> IF t = custom.descriptor THEN custom.name ELSE @[t]]])
    ELSE IF AsU32(custom.descriptor) % 2 # 0
    THEN Panic([c EXCEPT !.custom_type_names =
                    [t \in DOMAIN @ \cup {custom.descriptor} |->
                        IF t = custom.descriptor THEN custom.name ELSE @[t]]])
    ELSE IF Char(WithFlag(AsU32(custom.descriptor), 1)) \in DOMAIN c.custom_type_names
    THEN Panic([c EXCEPT !.custom_type_names =
                    [t \in DOMAIN @ \cup {custom.descriptor} |->
                        IF t \in {custom.descriptor,
                                  Char(WithFlag(AsU32(custom.descriptor), 1))}
                        THEN custom.name ELSE @[t]]])
    ELSE [c EXCEPT !.custom_type_names =
            [t \in DOMAIN @ \cup {custom.descriptor,
                                  Char(WithFlag(AsU32(custom.descriptor), 1))} |->
                IF t \in {custom.descriptor, Char(WithFlag(AsU32(custom.descriptor), 1))}
                THEN custom.name ELSE @[t]]]

RECURSIVE add_custom_type_names(_, _)
add_custom_type_names(c, customs) ==
    IF customs = <<>> THEN c
    ELSE add_custom_type_names(AddCustom(c, Head(customs)), Tail(customs))

Custom(n, name) == [descriptor |-> Char(n), name |-> name]

\* program.custom_type_names of the programs handed to the Context
CustomLists ==
    { <<Custom(8, "Foo")>>,
      <<Custom(10, "Bar")>>,
      <<Custom(8, "Foo"), Custom(10, "Bar")>>,
      <<Custom(8, "Baz")>>,
      <<Custom(9, "Foo")>>,
      <<Custom(10, "Bar"), Custom(10, "Foo")>> }

ExportDescs ==
    { Export(None, Function("f", <<TYPE_STRING, TYPE_NUMBER>>, TYPE_BOOLEAN)),
      Export(None, Function("g", <<Char(8), TYPE_BOOLEAN, TYPE_JS_OWNED>>, TYPE_JS_OWNED)),
      Method("Foo", Function("m", <<Char(9), TYPE_JS_REF>>, NoRet)),
      Export("Foo", Function("make", <<>>, Char(8))),
      Export(None, Function("make_foo", <<>>, Char(8))),
      Method("Bar", Function("m", <<TYPE_BORROWED_STR>>, TYPE_STRING)),
      Export(None, Function("bad_str", <<TYPE_NUMBER>>, TYPE_BORROWED_STR)),
      Method("Foo", Function("bad_ref", <<>>, TYPE_JS_REF)),
      Export(None, Function("bad_custom", <<TYPE_STRING>>, Char(9))) }

ImportDescs ==
    { Import("./foo", None, FALSE, Function("foo", <<>>, NoRet)),
      Import("./bar", None, FALSE, Function("foo", <<TYPE_NUMBER>>, NoRet)),
      Import("./bar", "Bar", FALSE, Function("foo", <<>>, TYPE_NUMBER)),
      Import(None, None, TRUE, Function("bar", <<TYPE_STRING>>, TYPE_NUMBER)),
      Import(None, None, FALSE, Function("bad_ref", <<TYPE_JS_OWNED>>, TYPE_JS_REF)),
      Import(None, "Foo", TRUE, Function("bad_str", <<>>, TYPE_BORROWED_STR)),
      Import(None, None, FALSE, Function("bad_custom", <<>>, Char(9))) }

\* the exports of a module built with string returns
GenExportList ==
    ExportList \o << [field |-> "__wbindgen_boxed_str_ptr", internal |-> 4],
                     [field |-> "__wbindgen_boxed_str_len", internal |-> 5],
                     [field |-> "__wbindgen_boxed_str_free", internal |-> 6] >>

GenModules ==
    { MkModule(<<>>, <<>>),
      MkModule(<<[module |-> "env", field |-> "__wbindgen_object_drop_ref"],
                 [module |-> "env", field |-> "__wbindgen_string_get"]>>,
               GenExportList) }

NotGenPass == UNCHANGED <<debug, slab, slab_next, stack, handles, last, frames, done, lifo,
                          mem, icall, stale, instances, wasm_calls, codec>>

Ask(kind, d) == [kind |-> kind, d |-> d]

\* Context::add_custom_type_names(program), before anything is generated
AddCustomTypeNames(customs) ==
    /\ phase = "new" /\ ~cx.panicked
    /\ \A k \in 1..Len(asked) : asked[k].kind = "customs"
    /\ Len(asked) < MaxRegistrations
    /\ cx' = add_custom_type_names(cx, customs)
    /\ asked' = Append(asked, Ask("customs", customs))
    /\ UNCHANGED <<module, orig, phase, module_name>>
    /\ NotGenPass

Generated == { k \in 1..Len(asked) : asked[k].kind \in {"export", "import"} }

\* SubContext::generate_export
GenerateExportUpTo(export, max) ==
    /\ phase = "new" /\ ~cx.panicked
    /\ Cardinality(Generated) < max
    /\ cx' = generate_export(cx, debug, export)
    /\ asked' = Append(asked, Ask("export", export))
    /\ UNCHANGED <<module, orig, phase, module_name>>
    /\ NotGenPass

GenerateExport(export) == GenerateExportUpTo(export, MaxAsked)

\* SubContext::generate_import
GenerateImport(import) ==
    /\ phase = "new" /\ ~cx.panicked
    /\ Cardinality(Generated) < MaxAsked
    /\ cx' = generate_import(cx, import)
    /\ asked' = Append(asked, Ask("import", import))
    /\ UNCHANGED <<module, orig, phase, module_name>>
    /\ NotGenPass

\* Context::finalize, a first and a second time
FinalizePass(name) ==
    /\ phase \in {"new", "finalized"} /\ ~cx.panicked
    /\ \E c \in {FinalizeCx(cx, debug, module)} :
          /\ cx' = c
          /\ module' = FinalizeModule(c, module, name)
    /\ module_name' = name
    /\ phase' = IF phase = "new" THEN "finalized" ELSE "finalized again"
    /\ UNCHANGED <<orig, asked>>
    /\ NotGenPass

PassNext ==
    \/ \E customs \in CustomLists : AddCustomTypeNames(customs)
    \/ \E export \in ExportDescs : GenerateExport(export)
    \/ \E import \in ImportDescs : GenerateImport(import)
    \/ FinalizePass("lib")

PassInit ==
    /\ debug \in BOOLEAN /\ SlabInit /\ WrapInit /\ ImpInit /\ ExtInit
    /\ module \in GenModules
    /\ orig = module
    /\ \E nodejs \in BOOLEAN : cx = [NoCx EXCEPT !.nodejs = nodejs]
    /\ phase = "new"
    /\ module_name = ""

SpecGen == PassInit /\ [][PassNext]_vars

(***************************************************************************)
(* Reading emitted text back: the comma-separated list between the first   *)
(* "(" and the closing ")" of a declaration or a call.                     *)
(***************************************************************************)
RECURSIVE IndexOf(_, _, _)
IndexOf(str, sep, k) ==
    IF k + Len(sep) - 1 > Len(str) THEN 0
    ELSE IF SubSeq(str, k, k + Len(sep) - 1) = sep THEN k
    ELSE IndexOf(str, sep, k + 1)

RECURSIVE SplitOn(_, _)
SplitOn(str, sep) ==
    IF IndexOf(str, sep, 1) = 0 THEN <<str>>
    ELSE <<SubSeq(str, 1, IndexOf(str, sep, 1) - 1)>>
         \o SplitOn(SubSeq(str, IndexOf(str, sep, 1) + Len(sep), Len(str)), sep)

ListIn(text) ==
    IF IndexOf(text, "(", 1) + 1 = Len(text) THEN <<>>
    ELSE SplitOn(SubSeq(text, IndexOf(text, "(", 1) + 1, Len(text) - 1), ", ")

\* every function text generated so far: in globals and in the classes
AllJs(c) ==
    UNION { Range(c.globals[k].body) : k \in 1..Len(c.globals) }
    \cup UNION { Range(c.exported_classes[k].contents) : k \in 1..Len(c.exported_classes) }

\* the ABI actuals of one argument of tag `tag` at position i (from 0)
ActualsOf(tag, i) ==
    CASE tag = TYPE_NUMBER -> <<"arg" \o ToString(i)>>
      [] tag = TYPE_BOOLEAN -> <<"arg" \o ToString(i) \o " ? 1 : 0">>
      [] tag \in {TYPE_STRING, TYPE_BORROWED_STR} ->
            <<"ptr" \o ToString(i), "len" \o ToString(i)>>
      [] tag \in {TYPE_JS_OWNED, TYPE_JS_REF} -> <<"idx" \o ToString(i)>>
      [] OTHER -> IF AsU32(tag) % 2 = 1 THEN <<"arg" \o ToString(i) \o ".ptr">>
                  ELSE <<"ptr" \o ToString(i)>>

(***************************************************************************)
(* C11: the call site generate_function emits passes the ABI actuals in    *)
(* declared argument order, two (pointer, length) for a String or          *)
(* BorrowedString argument and one for every other argument, preceded by   *)
(* this.ptr exactly when is_method is set; the declaration has one         *)
(* parameter per type tag.                                                 *)
(***************************************************************************)
C11_CallSiteActuals ==
    \A js \in AllJs(cx) :
        /\ ListIn(js.decl) = [i \in 1..Len(js.function.arguments) |-> "arg" \o ToString(i - 1)]
        /\ ListIn(js.call) =
              (IF js.is_method THEN <<"this.ptr">> ELSE <<>>)
              \o Flatten([i \in 1..Len(js.function.arguments) |->
                            ActualsOf(js.function.arguments[i], i - 1)])

\* arguments [String, Number] were generated with 3 actuals, next to a method
\* that passes this.ptr before its two arguments
C11_StringNumberAndMethod ==
    /\ \E js \in AllJs(cx) :
          /\ js.function.arguments = <<TYPE_STRING, TYPE_NUMBER>>
          /\ ListIn(js.call) = <<"ptr0", "len0", "arg1">>
          /\ ListIn(js.decl) = <<"arg0", "arg1">>
    /\ \E js \in AllJs(cx) :
          /\ js.is_method
          /\ ListIn(js.call) = <<"this.ptr", "arg0.ptr", "idx1">>

\* the tags a registration of `custom` claims: its own and its by-ref tag
TagsOf(custom) == {custom.descriptor, Char(WithFlag(AsU32(custom.descriptor), 1))}

\* some entry of the list registers a tag that the registry, or an earlier
\* entry of the list, already holds
RegistersTwice(registry, customs) ==
    \E k \in 1..Len(customs) :
        \/ TagsOf(customs[k]) \cap DOMAIN registry # {}
        \/ \E j \in 1..(k - 1) : TagsOf(customs[k]) \cap TagsOf(customs[j]) # {}

(***************************************************************************)
(* C12: add_custom_type_names maps every registered by-value id and its    *)
(* by-ref id (the id with the flag bit set) to the same class name, never  *)
(* overwrites a mapping, and aborts when a by-value id or its by-ref id is *)
(* registered a second time, within one program or across calls.           *)
(***************************************************************************)
C12_CustomTypeRegistry ==
    [][(Len(asked') = Len(asked) + 1 /\ asked'[Len(asked')].kind = "customs") =>
          /\ RegistersTwice(cx.custom_type_names, asked'[Len(asked')].d) => cx'.panicked
          /\ ~cx'.panicked =>
                /\ \A t \in DOMAIN cx.custom_type_names :
                      /\ t \in DOMAIN cx'.custom_type_names
                      /\ cx'.custom_type_names[t] = cx.custom_type_names[t]
                /\ \A k \in 1..Len(asked'[Len(asked')].d) :
                      \A t \in TagsOf(asked'[Len(asked')].d[k]) :
                          /\ t \in DOMAIN cx'.custom_type_names
                          /\ cx'.custom_type_names[t] = asked'[Len(asked')].d[k].name
                /\ \A t \in DOMAIN cx'.custom_type_names :
                      /\ Char(WithFlag(AsU32(t), 1)) \in DOMAIN cx'.custom_type_names
                      /\ cx'.custom_type_names[Char(WithFlag(AsU32(t), 1))]
                            = cx'.custom_type_names[t]
    ]_vars

\* a program registered Foo and Bar; a second program's registration of Foo's
\* by-ref id aborted
C12_RegisteredThenRefused ==
    /\ Len(asked) = 2 /\ asked[2].kind = "customs"
    /\ asked[1].d = <<Custom(8, "Foo"), Custom(10, "Bar")>>
    /\ asked[2].d = <<Custom(9, "Foo")>>
    /\ cx.panicked
    /\ DOMAIN cx.custom_type_names = {Char(8), Char(9), Char(10), Char(11)}

\* a return tag that is argument-only: borrowed string, borrowed host value,
\* custom type by reference
ArgumentOnly(ret) ==
    \/ ret \in {TYPE_BORROWED_STR, TYPE_JS_REF}
    \/ ret \notin PrimitiveTags \cup {NoRet} /\ AsU32(ret) % 2 = 1

\* the text emitted for the descriptor of a request, if any
GlueOf(c, ask) ==
    IF ask.kind = "export"
    THEN { js \in AllJs(c) : js.function = ask.d.function }
    ELSE { k \in 1..Len(c.globals) :
            c.globals[k].text = "export function "
                \o mangled_import_name(ask.d.class, ask.d.function.name) }

(***************************************************************************)
(* C13: generation aborts at once, producing no artifacts, whenever the    *)
(* return type of an export or of an import is BorrowedString,             *)
(* HostBorrowed or a custom-by-ref tag; no glue is emitted for that        *)
(* function.                                                               *)
(***************************************************************************)
C13_ArgumentOnlyReturnAborts ==
    \A k \in Generated :
        ArgumentOnly(asked[k].d.function.ret) =>
            /\ cx.panicked
            /\ k = Len(asked)
            /\ phase = "new"
            /\ GlueOf(cx, asked[k]) = {}

\* an import returning a borrowed host value aborted a pass that had
\* generated an export before
C13_ImportAbortedAfterExport ==
    /\ Len(asked) = 2
    /\ asked[1].kind = "export" /\ GlueOf(cx, asked[1]) # {}
    /\ asked[2].kind = "import" /\ asked[2].d.function.ret = TYPE_JS_REF
    /\ cx.panicked

(***************************************************************************)
(* The classes of a program: the custom types are registered, the exports  *)
(* of the classes (and a free function between them) are generated in any  *)
(* order, then finalize runs, once and again.                              *)
(***************************************************************************)
MaxMethods == 3

ClassExports ==
    { e \in ExportDescs : e.class # None } \cup
    { Export(None, Function("f", <<TYPE_STRING, TYPE_NUMBER>>, TYPE_BOOLEAN)) }

ClassInit ==
    /\ debug \in BOOLEAN /\ SlabInit /\ WrapInit /\ ImpInit
    /\ stale = {} /\ instances = <<>> /\ wasm_calls = <<>> /\ codec = NoCodec
    /\ module \in GenModules
    /\ orig = module
    /\ \E customs \in CustomLists :
          /\ cx = add_custom_type_names(NoCx, customs)
          /\ asked = <<Ask("customs", customs)>>
    /\ phase = "new"
    /\ module_name = ""

ClassNext ==
    \/ \E export \in ClassExports : GenerateExportUpTo(export, MaxMethods)
    \/ FinalizePass("lib")

SpecClasses == ClassInit /\ [][ClassNext]_vars

\* the exports generated for class `class`, in the order they were asked
ClassAsks(class) ==
    SelectSeq(asked, LAMBDA a : a.kind = "export" /\ a.d.class = class)

ClassesAsked ==
    { asked[k].d.class : k \in { j \in 1..Len(asked) :
                                    asked[j].kind = "export" /\ asked[j].d.class # None } }

ClassFragments(c, class) ==
    { k \in 1..Len(c.globals) : c.globals[k].text = "export class " \o class }

JsOfMember(export) ==
    Js(IF export.method THEN "" ELSE "static",
       export.class \o "_" \o export.function.name, export.method, export.function)

(***************************************************************************)
(* C14: after finalize the glue holds exactly one class definition for     *)
(* every class name an export was generated for and none for any other     *)
(* name; the definition is made of the glue of every method and static     *)
(* function generated for the class, each once, in the order generated;    *)
(* finalizing a second time adds no class definition.                      *)
(***************************************************************************)
C14_OneClassDefinitionPerName ==
    phase \in {"finalized", "finalized again"} =>
        /\ \A class \in ClassesAsked :
              /\ Cardinality(ClassFragments(cx, class)) = 1
              /\ \A k \in ClassFragments(cx, class) :
                    cx.globals[k].body =
                        [i \in 1..Len(ClassAsks(class)) |-> JsOfMember(ClassAsks(class)[i].d)]
        /\ \A k \in 1..Len(cx.globals) :
              StartsWith(cx.globals[k].text, "export class ") =>
                  \E class \in ClassesAsked :
                      cx.globals[k].text = "export class " \o class
        /\ cx.exported_classes = <<>>

\* Foo.m, Bar.m, Foo.make were generated in that order and finalize ran twice
C14_InterleavedClassesFinalizedTwice ==
    /\ phase = "finalized again"
    /\ Len(asked) = 4
    /\ asked[2].d = Method("Foo", Function("m", <<Char(9), TYPE_JS_REF>>, NoRet))
    /\ asked[3].d = Method("Bar", Function("m", <<TYPE_BORROWED_STR>>, TYPE_STRING))
    /\ asked[4].d = Export("Foo", Function("make", <<>>, Char(8)))
    /\ \E k \in ClassFragments(cx, "Foo") : Len(cx.globals[k].body) = 2
    /\ \E k \in ClassFragments(cx, "Bar") : Len(cx.globals[k].body) = 1

\* whether the module the Context was given imports `name` from env
ImportedFromEnv(name) ==
    \E k \in 1..Len(ImportsOf(orig)) :
        ImportsOf(orig)[k].module = "env" /\ ImportsOf(orig)[k].field = name

Bindings(c, name) ==
    { k \in 1..Len(c.globals) : c.globals[k].text = "export const " \o name }

\* what the closure of a catalog routine materializes when nothing is yet
DepsOf(name) == BindBody([NoCx EXCEPT !.nodejs = cx.nodejs], name).exposed_globals
EntryPointsOf(name) ==
    BindBody([NoCx EXCEPT !.nodejs = cx.nodejs], name).required_internal_exports

(***************************************************************************)
(* C15: finalize emits `export const <name>` for a routine of the catalog  *)
(* exactly when the module handed to the Context imports that field from   *)
(* `env`, and then once; the routines whose import is absent materialize   *)
(* nothing: the support routines and required entry points after finalize  *)
(* are those present before, those of the classes, and the dependencies of *)
(* the imported routines.                                                  *)
(***************************************************************************)
C15_BoundIffImported ==
    [][(phase = "generated" /\ phase' = "finalized") =>
          /\ \A name \in Range(Catalog) :
                Cardinality(Bindings(cx', name)) = IF ImportedFromEnv(name) THEN 1 ELSE 0
          /\ cx'.exposed_globals =
                write_classes(cx, debug).exposed_globals
                \cup UNION { DepsOf(name) : name \in { n \in Range(Catalog) : ImportedFromEnv(n) } }
          /\ cx'.required_internal_exports =
                cx.required_internal_exports
                \cup UNION { EntryPointsOf(name) :
                                name \in { n \in Range(Catalog) : ImportedFromEnv(n) } }]_vars

\* the module imports __wbindgen_object_drop_ref from env and __wbindgen_throw
\* from elsewhere: the first is bound, the second is not and its string
\* reader is not materialized
C15_DropRefBoundThrowAbsent ==
    /\ phase = "finalized"
    /\ ImportsOf(orig) = << [module |-> "env", field |-> "__wbindgen_object_drop_ref"],
                            [module |-> "other", field |-> "__wbindgen_throw"] >>
    /\ Bindings(cx, "__wbindgen_object_drop_ref") # {}
    /\ Bindings(cx, "__wbindgen_throw") = {}
    /\ "drop_ref" \in cx.exposed_globals
    /\ DepsOf("__wbindgen_throw") # {}
    /\ DepsOf("__wbindgen_throw") \cap cx.exposed_globals = {}

\* the places of the glue that hold the source of a support routine or global
SupportFragments(c) ==
    { k \in 1..Len(c.globals) :
        \/ StartsWith(c.globals[k].text, "let ")
        \/ StartsWith(c.globals[k].text, "function ") }

(***************************************************************************)
(* C16: within one generation pass, whatever exports and imports were      *)
(* generated and however often finalize ran, the source of a support       *)
(* routine or support global stands in the glue at most once, and exactly  *)
(* once for every routine recorded as materialized.                        *)
(***************************************************************************)
C16_SupportRoutineEmittedOnce ==
    /\ \A j, k \in SupportFragments(cx) :
          cx.globals[j].text = cx.globals[k].text => j = k
    /\ Cardinality(SupportFragments(cx)) = Cardinality(cx.exposed_globals)

\* two exports taking a string were generated and finalize bound
\* __wbindgen_string_get: passStringToWasm was requested three times
C16_StringPassingRequestedThrice ==
    /\ phase = "finalized"
    /\ Len(asked) = 2
    /\ \A k \in 1..2 : asked[k].kind = "export" /\ asked[k].d.function.name = "f"
    /\ ImportedFromEnv("__wbindgen_string_get")
    /\ Cardinality({ k \in 1..Len(cx.globals) :
                        cx.globals[k].text = "function passStringToWasm" }) = 1

\* every index a caller can hand to the runtime: the handles of the cells and
\* stack slots there are, and one past them
Indices == 0..(2 * (Len(slab) + Len(stack)) + 3)

\* what the two builds make of one call from the same state
SameUnlessAsserted(dbg, rel) == ~dbg.threw => rel = dbg

(***************************************************************************)
(* C17: from every state the diagnostic build reaches, each operation of   *)
(* the runtime, on whatever index or value, returns the same result and    *)
(* leaves the same slab, free-list head and stack in the build without     *)
(* diagnostics as in the diagnostic build, unless the diagnostic build     *)
(* throws; so two runs in which no assertion fires stay in step.           *)
(***************************************************************************)
C17_DebugAgreesWithRelease ==
    debug =>
        /\ \A v \in Values :
              SameUnlessAsserted(AddHeapObject(Now, TRUE, v), AddHeapObject(Now, FALSE, v))
        /\ \A idx \in Indices :
              /\ SameUnlessAsserted(GetObject(Now, TRUE, idx), GetObject(Now, FALSE, idx))
              /\ SameUnlessAsserted(DropRef(Now, TRUE, idx), DropRef(Now, FALSE, idx))
              /\ SameUnlessAsserted(TakeObject(Now, TRUE, idx), TakeObject(Now, FALSE, idx))
              /\ SameUnlessAsserted(CloneRef(Now, TRUE, idx), CloneRef(Now, FALSE, idx))

\* the diagnostic build holds a shared cell, a free cell and a stack slot: a
\* drop of the shared cell succeeds in both builds, a read of the free cell
\* throws in the diagnostic build only
C17_SharedCellFreeCellAndStack ==
    /\ debug
    /\ Len(slab) = 2 /\ Len(stack) = 1
    /\ SlabAt(slab, 0).kind = "number"
    /\ SlabAt(slab, 1).kind = "object" /\ SlabAt(slab, 1).cnt = 2
    /\ ~DropRef(Now, TRUE, 2).threw
    /\ DropRef(Now, TRUE, 2).rt # Now
    /\ GetObject(Now, TRUE, 0).threw /\ ~GetObject(Now, FALSE, 0).threw

(***************************************************************************)
(* C18, as stated: takeObject(h) on a live heap handle returns what        *)
(* getObject(h) returns, leaves the runtime as dropRef(h) would, and       *)
(* afterwards the cell of h has been released.                             *)
(***************************************************************************)
C18_TakeObjectReleasesCell ==
    [][last'.op = "takeObject" =>
          /\ ~last'.threw
          /\ last'.ret = GetObject(Now, debug, last'.arg).ret
          /\ RT(slab', slab_next', stack') = DropRef(Now, debug, last'.arg).rt
          /\ SlabAt(slab', Shr1(last'.arg)).kind = "number"]_vars

(***************************************************************************)
(* C18, amended: takeObject(h) on a live heap handle returns what          *)
(* getObject(h) returns and leaves the runtime as dropRef(h) would: the    *)
(* count of the cell is one lower, and the cell is released (it heads the  *)
(* free list and h is no longer valid) exactly when the count was 1; a     *)
(* cell that cloneRef made shared stays, with its object, for the holders  *)
(* that remain.                                                            *)
(***************************************************************************)
C18_TakeObjectIsGetThenDrop ==
    [][last'.op = "takeObject" =>
          /\ ~last'.threw
          /\ last'.ret = GetObject(Now, debug, last'.arg).ret
          /\ RT(slab', slab_next', stack') = DropRef(Now, debug, last'.arg).rt
          /\ IF SlabAt(slab, Shr1(last'.arg)).cnt = 1
             THEN /\ SlabAt(slab', Shr1(last'.arg)) = Link(slab_next)
                  /\ slab_next' = Shr1(last'.arg)
                  /\ ~Live(handles', last'.arg)
             ELSE /\ SlabAt(slab', Shr1(last'.arg)) =
                        Cell(last'.ret, SlabAt(slab, Shr1(last'.arg)).cnt - 1)
                  /\ slab_next' = slab_next
                  /\ Live(handles', last'.arg)]_vars

\* takeObject has just run on a handle that cloneRef had made shared: the
\* cell is still there with one reference left
C18_TakenWhileShared ==
    /\ last.op = "takeObject" /\ ~last.threw
    /\ Live(handles, last.arg)
    /\ SlabAt(slab, Shr1(last.arg)) = Cell(last.ret, 1)

(***************************************************************************)
(* A wasm side that misuses the protocol: it keeps a copy of a handle it   *)
(* dropped to zero and drops it again later, after whatever operations.    *)
(***************************************************************************)
\* dropRef by the holder of a reference; the handle is remembered when the
\* drop released its cell
DoDropRefAndRemember(h) ==
    /\ DropRefStep(h)
    /\ stale' = IF Live(handles', h) THEN stale ELSE stale \cup {h}
    /\ RestIdle

\* dropRef on a remembered handle.  was_live tells whether addHeapObject
\* had handed the handle out again; the count the drop takes is then the new
\* holder's.
DoOverDrop(h) ==
    /\ LET r == DropRef(Now, debug, h) IN
       /\ SetRT(r.rt)
       /\ last' = Op("overDrop", h, r, Live(handles, h))
       /\ handles' = IF r.threw THEN handles ELSE Dropped(handles, h)
    /\ UNCHANGED debug /\ OtherIdle

\* dropRef on an odd handle.  dropRef never reads the stack: what the build
\* without diagnostics touches is the heap cell at the same index, whose
\* holder loses a reference.
DoDropStackRef(h) ==
    /\ LET r == DropRef(Now, debug, h) IN
       /\ SetRT(r.rt)
       /\ last' = Op("dropStackRef", h, r, Live(handles, h - 1))
       /\ handles' = IF r.threw THEN handles ELSE Dropped(handles, h - 1)
    /\ UNCHANGED debug /\ OtherIdle

\* the odd handles whose index is that of a cell of the slab, and the next
OddHandles == { 2 * i + 1 : i \in 0..Len(slab) }

\* the operations on the heap cells; the borrow stack plays no part in a drop
MisuseNext ==
    \/ \E v \in Values : DoAddHeapObject(v)
    \/ \E h \in LiveHeap : DoCloneRef(h)
    \/ \E h \in LiveHeap : DoDropRefAndRemember(h)
    \/ \E h \in LiveHeap : DoTakeObject(h)
    \/ \E h \in stale : DoOverDrop(h)
    \/ \E h \in OddHandles : DoDropStackRef(h)

SpecMisuse == Init /\ [][MisuseNext]_vars

Unchanged == slab' = slab /\ slab_next' = slab_next /\ stack' = stack

(***************************************************************************)
(* C19, as stated: in the diagnostic build a dropRef on a heap handle      *)
(* whose cell was already dropped to 0 throws and changes nothing,         *)
(* whatever happened between the releasing drop and the extra one.         *)
(***************************************************************************)
C19_OverDropAlwaysRefused ==
    [][(debug /\ last'.op = "overDrop") => (last'.threw /\ Unchanged)]_vars

(***************************************************************************)
(* C19, amended: in the diagnostic build a dropRef on a heap handle whose  *)
(* cell was dropped to 0 throws and changes nothing as long as             *)
(* addHeapObject has not handed the cell out again; once it has, the       *)
(* handle names the new cell and the extra drop takes one reference of the *)
(* new holder without an error.  In both cases no count goes below 0.      *)
(***************************************************************************)
C19_OverDropRefusedUntilReuse ==
    [][(debug /\ last'.op = "overDrop") =>
          /\ IF ~last'.was_live
             THEN last'.threw /\ Unchanged
             ELSE /\ ~last'.threw
                  /\ RT(slab', slab_next', stack') = DropRef(Now, FALSE, last'.arg).rt
                  /\ slab' # slab
          /\ \A i \in 1..Len(slab') : slab'[i].cnt >= 0]_vars

\* the diagnostic build has just refused an extra drop of a handle whose cell
\* is still free, after another handle was added, cloned and dropped
C19_RefusedAfterOtherOperations ==
    /\ debug
    /\ last.op = "overDrop" /\ last.threw /\ ~last.was_live
    /\ SlabAt(slab, Shr1(last.arg)).kind = "number"
    /\ \E h \in LiveHeap : handles[h].cloned

(***************************************************************************)
(* The classes at run time: the glue constructs an instance around a       *)
(* pointer the wasm module returned, and the holder of the instance calls  *)
(* free() on it, any number of times.                                      *)
(***************************************************************************)
MaxInstances == 2
MaxFrees == 3

Ptrs == {8, 16}
ClassNames == {"Foo", "Bar"}
Tokens == {"token", "forged"}

\* a call into the wasm module: the routine, its argument, and the ptr field
\* of the instance while the routine runs
WasmCall(routine, arg, this) == [routine |-> routine, arg |-> arg, held |-> this.ptr]

\* the statements of a method body run on a frame: the instance, the local
\* `ptr`, and the calls made so far
Frame0(this) == [this |-> this, ptr |-> 0, calls |-> <<>>]
ReadPtr(f) == [f EXCEPT !.ptr = f.this.ptr]                  \* const ptr = this.ptr;
ClearPtr(f) == [f EXCEPT !.this.ptr = 0]                     \* this.ptr = 0;
CallFree(f) ==                                               \* wasm.<free>(ptr);
    [f EXCEPT !.calls = Append(@, WasmCall(free_function(f.this.class), f.ptr, f.this))]

\* a destructor that calls the free routine while the instance holds the pointer
FreeCallsBeforeClearing(this) == ClearPtr(CallFree(ReadPtr(Frame0(this))))

\* free() { const ptr = this.ptr; this.ptr = 0; wasm.<free>(ptr); }
Free(this) == CallFree(ClearPtr(ReadPtr(Frame0(this))))

\* constructor(ptr, sym) { _checkToken(sym); this.ptr = ptr; }
Construct(d, class, ptr, sym) ==
    IF d /\ sym # "token" THEN <<>> ELSE <<[class |-> class, ptr |-> ptr]>>

NotClassRun == UNCHANGED <<slab, slab_next, stack, handles, last, frames, done, lifo,
                           mem, icall, module, orig, cx, phase, module_name, asked, stale,
                           codec>>

\* `new Class(ptr, token)` of a return conversion, or `new Class(ptr, sym)` of
\* anyone
DoConstruct(class, ptr, sym) ==
    /\ Len(instances) < MaxInstances
    /\ instances' = instances \o Construct(debug, class, ptr, sym)
    /\ UNCHANGED <<debug, wasm_calls>>
    /\ NotClassRun

\* instance.free()
DoFree(k) ==
    /\ Len(wasm_calls) < MaxFrees
    /\ instances' = [instances EXCEPT ![k] = Free(instances[k]).this]
    /\ wasm_calls' = wasm_calls \o Free(instances[k]).calls
    /\ UNCHANGED debug
    /\ NotClassRun

ClassRunNext ==
    \/ \E class \in ClassNames, ptr \in Ptrs, sym \in Tokens : DoConstruct(class, ptr, sym)
    \/ \E k \in 1..Len(instances) : DoFree(k)

SpecClassRun == Init /\ [][ClassRunNext]_vars

(***************************************************************************)
(* C20: a call of free() on an instance leaves the instance with ptr 0 and *)
(* makes exactly one call into the wasm module: the free routine of the    *)
(* instance's class, with the pointer the instance held before, made while *)
(* the instance holds 0; no other instance is touched.                     *)
(***************************************************************************)
C20_FreeClearsThenCallsOnce ==
    [][(wasm_calls' # wasm_calls \/ instances' # instances) =>
          \/ /\ wasm_calls' = wasm_calls
             /\ Len(instances') <= Len(instances) + 1
             /\ SubSeq(instances', 1, Len(instances)) = instances
          \/ \E k \in 1..Len(instances) :
                /\ instances' = [instances EXCEPT ![k].ptr = 0]
                /\ Len(wasm_calls') = Len(wasm_calls) + 1
                /\ SubSeq(wasm_calls', 1, Len(wasm_calls)) = wasm_calls
                /\ wasm_calls'[Len(wasm_calls')] =
                      [routine |-> free_function(instances[k].class),
                       arg |-> instances[k].ptr, held |-> 0]]_vars

\* a Foo and a Bar were constructed; the Foo was freed, which called the free
\* routine of Foo with 8 and left the Bar alone
C20_FooFreedBarKept ==
    /\ instances = << [class |-> "Foo", ptr |-> 0], [class |-> "Bar", ptr |-> 16] >>
    /\ wasm_calls = << [routine |-> free_function("Foo"), arg |-> 8, held |-> 0] >>

(***************************************************************************)
(* Strings through linear memory.  A JS string is its sequence of UTF-16   *)
(* code units; linear memory is a sequence of bytes.  Buffer.from(arg) and *)
(* TextEncoder.encode(arg) both write UTF-8, a lone surrogate becoming     *)
(* U+FFFD; buf.toString() and TextDecoder.decode read UTF-8, and a         *)
(* TextDecoder made without ignoreBOM drops a leading byte order mark.     *)
(***************************************************************************)
MaxStrLen == 2

\* NUL, "A", e-acute, the two halves of U+1F600, and U+FEFF
CodeUnits == {0, 65, 233, 55357, 56832, 65279}
Strings == UNION { [1..n -> CodeUnits] : n \in 0..MaxStrLen }
JsArgs == { [type |-> "string", units |-> s] : s \in Strings }
          \cup { [type |-> "number", units |-> <<>>] }

MemBytes == 3 + 3 * MaxStrLen
Mallocs == {0, 3}
BlankMemory == [k \in 1..MemBytes |-> 255]

IsHigh(c) == c >= 55296 /\ c <= 56319
IsLow(c) == c >= 56320 /\ c <= 57343
IsCont(b) == b >= 128 /\ b < 192

\* the UTF-8 bytes of a code point
Utf8Of(cp) ==
    IF cp < 128 THEN <<cp>>
    ELSE IF cp < 2048 THEN <<192 + (cp \div 64), 128 + (cp % 64)>>
    ELSE IF cp < 65536
    THEN <<224 + (cp \div 4096), 128 + ((cp \div 64) % 64), 128 + (cp % 64)>>
    ELSE <<240 + (cp \div 262144), 128 + ((cp \div 4096) % 64),
           128 + ((cp \div 64) % 64), 128 + (cp % 64)>>

\* the UTF-16 code units of a code point
UnitsOf(cp) ==
    IF cp < 65536 THEN <<cp>>
    ELSE <<55296 + ((cp - 65536) \div 1024), 56320 + ((cp - 65536) % 1024)>>

\* Buffer.from(arg) and textEncoder().encode(arg)
RECURSIVE Encode(_)
Encode(s) ==
    IF s = <<>> THEN <<>>
    ELSE IF IsHigh(s[1]) /\ Len(s) >= 2 /\ IsLow(s[2])
    THEN Utf8Of(65536 + (s[1] - 55296) * 1024 + (s[2] - 56320))
         \o Encode(SubSeq(s, 3, Len(s)))
    ELSE IF IsHigh(s[1]) \/ IsLow(s[1]) THEN Utf8Of(65533) \o Encode(Tail(s))
    ELSE Utf8Of(s[1]) \o Encode(Tail(s))

\* buf.toString(): UTF-8 to code units, U+FFFD for a byte that starts nothing
RECURSIVE Decode(_)
Decode(b) ==
    IF b = <<>> THEN <<>>
    ELSE IF b[1] < 128 THEN <<b[1]>> \o Decode(Tail(b))
    ELSE IF b[1] >= 192 /\ b[1] < 224 /\ Len(b) >= 2 /\ IsCont(b[2])
    THEN UnitsOf((b[1] - 192) * 64 + (b[2] - 128)) \o Decode(SubSeq(b, 3, Len(b)))
    ELSE IF b[1] >= 224 /\ b[1] < 240 /\ Len(b) >= 3 /\ IsCont(b[2]) /\ IsCont(b[3])
    THEN UnitsOf((b[1] - 224) * 4096 + (b[2] - 128) * 64 + (b[3] - 128))
         \o Decode(SubSeq(b, 4, Len(b)))
    ELSE IF b[1] >= 240 /\ b[1] < 248 /\ Len(b) >= 4
            /\ IsCont(b[2]) /\ IsCont(b[3]) /\ IsCont(b[4])
    THEN UnitsOf((b[1] - 240) * 262144 + (b[2] - 128) * 4096
                 + (b[3] - 128) * 64 + (b[4] - 128))
         \o Decode(SubSeq(b, 5, Len(b)))
    ELSE <<65533>> \o Decode(Tail(b))

\* textDecoder().decode(slice), the decoder being new TextDecoder('utf-8')
TextDecode(b) ==
    IF Len(b) >= 3 /\ SubSeq(b, 1, 3) = <<239, 187, 191>>
    THEN Decode(SubSeq(b, 4, Len(b)))
    ELSE Decode(b)

\* buf.copy(Buffer.from(wasm.memory.buffer), ptr) and getUint8Memory().set(buf, ptr)
SetBytes(memory, buf, ptr) ==
    [k \in 1..Len(memory) |->
        IF k > ptr /\ k <= ptr + Len(buf) THEN buf[k - ptr] ELSE memory[k]]

\* function passStringToWasm(arg); ptr is what wasm.__wbindgen_malloc(len) returns
passStringToWasm(c, arg, ptr) ==
    IF arg.type # "string" THEN [c EXCEPT !.pc = "threw", !.arg = arg.units]
    ELSE [c EXCEPT !.pc = "passed", !.arg = arg.units,
                   !.memory = SetBytes(@, Encode(arg.units), ptr),
                   !.ptr = ptr, !.len = Len(Encode(arg.units))]

\* function getStringFromWasm(ptr, len)
getStringFromWasm(c, ptr, len) ==
    IF c.nodejs THEN Decode(SubSeq(c.memory, ptr + 1, ptr + len))
    ELSE TextDecode(SubSeq(c.memory, ptr + 1, ptr + len))

NotCodec == UNCHANGED <<debug, slab, slab_next, stack, handles, last, frames, done, lifo,
                        mem, icall, module, orig, cx, phase, module_name,
                        asked, stale, instances, wasm_calls>>

DoPassStringToWasm(arg, ptr) ==
    /\ codec.pc = "idle"
    /\ ptr + Len(Encode(arg.units)) <= MemBytes
    /\ codec' = passStringToWasm(codec, arg, ptr)
    /\ NotCodec

\* the receiving side reads the string it was handed
DoGetStringFromWasm ==
    /\ codec.pc = "passed"
    /\ codec' = [codec EXCEPT !.pc = "got",
                              !.ret = getStringFromWasm(codec, codec.ptr, codec.len)]
    /\ NotCodec

StringNext ==
    \/ \E arg \in JsArgs, ptr \in Mallocs : DoPassStringToWasm(arg, ptr)
    \/ DoGetStringFromWasm

StringInit ==
    /\ debug \in BOOLEAN /\ SlabInit /\ WrapInit /\ ImpInit /\ GenInit
    /\ asked = <<>> /\ stale = {} /\ instances = <<>> /\ wasm_calls = <<>>
    /\ \E nodejs \in BOOLEAN :
          codec = [NoCodec EXCEPT !.nodejs = nodejs, !.memory = BlankMemory]

SpecString == StringInit /\ [][StringNext]_vars

\* a string with no lone surrogate: the strings that have a UTF-8 encoding
RECURSIVE WellFormed(_)
WellFormed(s) ==
    IF s = <<>> THEN TRUE
    ELSE IF IsHigh(s[1]) THEN Len(s) >= 2 /\ IsLow(s[2]) /\ WellFormed(SubSeq(s, 3, Len(s)))
    ELSE ~IsLow(s[1]) /\ WellFormed(Tail(s))

(***************************************************************************)
(* C21: for every string that has a UTF-8 encoding, the empty string and   *)
(* strings with NUL included, passStringToWasm leaves the encoding in the  *)
(* len bytes at ptr, and getStringFromWasm(ptr, len) reads back the same   *)
(* string, in the nodejs and in the text-encoder configuration.            *)
(***************************************************************************)
C21_StringRoundTrip ==
    (codec.pc \in {"passed", "got"} /\ WellFormed(codec.arg)) =>
        /\ SubSeq(codec.memory, codec.ptr + 1, codec.ptr + codec.len) = Encode(codec.arg)
        /\ codec.pc = "got" => codec.ret = codec.arg

(***************************************************************************)
(* C22: under addHeapObject, cloneRef, dropRef and takeObject on live      *)
(* handles every slab cell is an object with a count of at least 1 or a    *)
(* free-list link, and the head of the free list is a link or the end of   *)
(* the slab; a dropRef (alone or inside takeObject) that takes the last    *)
(* reference makes the cell the head of the free list, linked to the       *)
(* previous head; and addHeapObject takes the head of the free list,       *)
(* extending the slab only when the list is empty.                         *)
(***************************************************************************)
C22_SlabCellsAndFreeList ==
    /\ [](/\ \A i \in 1..Len(slab) :
                \/ slab[i].kind = "object" /\ slab[i].cnt >= 1
                \/ slab[i].kind = "number"
          /\ \/ slab_next = Len(slab)
             \/ InSlab(slab, slab_next) /\ SlabAt(slab, slab_next).kind = "number")
    /\ [][/\ (last'.op \in {"dropRef", "takeObject"}
              /\ SlabAt(slab, Shr1(last'.arg)).cnt = 1) =>
                /\ SlabAt(slab', Shr1(last'.arg)) = Link(slab_next)
                /\ slab_next' = Shr1(last'.arg)
          /\ last'.op = "addHeapObject" =>
                /\ last'.ret = 2 * slab_next
                /\ Len(slab') = IF slab_next = Len(slab) THEN Len(slab) + 1 ELSE Len(slab)
                /\ SlabAt(slab', slab_next) = Cell(last'.arg, 1)]_vars

\* cells 0 and 1 were released in that order; addHeapObject has just taken
\* cell 1, the head, and cell 0 is the head again; the slab was not extended
C22_LastFreedCellReusedFirst ==
    /\ last.op = "addHeapObject" /\ last.ret = 2
    /\ Len(slab) = 2
    /\ slab_next = 0
    /\ SlabAt(slab, 0).kind = "number"
    /\ SlabAt(slab, 1) = Cell(last.arg, 1)

(***************************************************************************)
(* C23: in the diagnostic build dropRef on an odd handle throws and leaves *)
(* the slab, the head of the free list and the stack as they were: the     *)
(* heap cell at the same index keeps its count.                            *)
(***************************************************************************)
C23_StackDropDiagnosed ==
    [][(debug /\ last'.op = "dropStackRef") =>
          /\ last'.threw
          /\ Unchanged
          /\ InSlab(slab, Shr1(last'.arg)) =>
                SlabAt(slab', Shr1(last'.arg)) = SlabAt(slab, Shr1(last'.arg))]_vars

\* the diagnostic build has just refused dropRef(1) while cell 0 holds an
\* object with one reference, which is still there
C23_RefusedWhileCellHeld ==
    /\ debug
    /\ last.op = "dropStackRef" /\ last.arg = 1 /\ last.threw /\ last.was_live
    /\ SlabAt(slab, 0).kind = "object" /\ SlabAt(slab, 0).cnt = 1
    /\ Live(handles, 0)

(***************************************************************************)
(* C24: at finalize, every wasm export with the reserved prefix that the   *)
(* generated glue calls (__wbindgen_malloc from passStringToWasm,          *)
(* __wbindgen_free from the cleanup of string arguments, and               *)
(* __wbindgen_boxed_str_ptr/_len/_free from string returns) is a member of *)
(* required_internal_exports, so that each of them the module exported     *)
(* before pruning is still exported after it.                              *)
(***************************************************************************)
FieldsOf(mod) == { ExportsOf(mod)[k].field : k \in 1..Len(ExportsOf(mod)) }
ReservedCalls(c) == { name \in c.wasm_refs : StartsWith(name, "__wbindgen") }

C24_CalledInternalExportsKept ==
    phase \in {"finalized", "finalized again"} =>
        \A name \in ReservedCalls(cx) :
            /\ name \in cx.required_internal_exports
            /\ name \in FieldsOf(orig) => name \in FieldsOf(module)

\* a method taking a borrowed string and returning a string was generated: the
\* glue calls the allocator, the argument cleanup and the three boxed-string
\* exports, all five survive finalize and the unused internal export is pruned
C24_StringMethodFinalized ==
    /\ phase = "finalized"
    /\ ReservedCalls(cx) = {"__wbindgen_malloc", "__wbindgen_free",
                            "__wbindgen_boxed_str_ptr", "__wbindgen_boxed_str_len",
                            "__wbindgen_boxed_str_free"}
    /\ ReservedCalls(cx) \subseteq FieldsOf(module)
    /\ "__wbindgen_global_argument_ptr" \in FieldsOf(orig) \ FieldsOf(module)

(***************************************************************************)
(* C25: whenever a support routine is materialized, every support routine  *)
(* and global its body refers to is materialized too, and earlier in the   *)
(* glue: takeObject needs getObject and dropRef, getObject needs stack and *)
(* slab, dropRef and addHeapObject need slab and slab_next,                *)
(* addBorrowedObject needs stack, and the string codecs built on the text  *)
(* encoder need their encoder or decoder and the byte view of memory.      *)
(* This holds in every order in which the routines are requested.          *)
(***************************************************************************)
\* the support routines and globals the body of an emitted routine names
RefersTo(c, text) ==
    CASE text = "function takeObject" -> {"function getObject", "function dropRef"}
      [] text = "function getObject" -> {"let stack", "let slab"}
      [] text \in {"function dropRef", "function addHeapObject"} ->
            {"let slab", "let slab_next"}
      [] text = "function addBorrowedObject" -> {"let stack"}
      [] text = "function passStringToWasm" ->
            IF c.nodejs THEN {} ELSE {"function textEncoder", "function getUint8Memory"}
      [] text = "function getStringFromWasm" ->
            IF c.nodejs THEN {} ELSE {"function textDecoder", "function getUint8Memory"}
      [] OTHER -> {}

PlaceOf(c, text) == { k \in 1..Len(c.globals) : c.globals[k].text = text }

C25_SupportRoutinesClosed ==
    \A k \in 1..Len(cx.globals) :
        \A text \in RefersTo(cx, cx.globals[k].text) :
            \E j \in PlaceOf(cx, text) : j < k

\* takeObject was asked for after addHeapObject had materialized the slab, and
\* finalize then asked for the text-encoder passStringToWasm and for getObject
\* and dropRef once more
C25_TakeObjectAfterAddHeapObject ==
    /\ phase = "finalized" /\ ~cx.nodejs
    /\ \E s \in PlaceOf(cx, "let slab"), a \in PlaceOf(cx, "function addHeapObject"),
          g \in PlaceOf(cx, "function getObject"), t \in PlaceOf(cx, "function takeObject"),
          p \in PlaceOf(cx, "function passStringToWasm") :
            s < a /\ a < g /\ g < t /\ t < p
    /\ PlaceOf(cx, "export const __wbindgen_object_drop_ref") # {}
    /\ Cardinality(PlaceOf(cx, "function dropRef")) = 1

(***************************************************************************)
(* C26: every class name the emitted export glue refers to, as the wrapper *)
(* of a custom-by-value return (`new Name(ret ..)`) or as the class of an  *)
(* argument assertion (`_assertClass(arg, Name)`), is defined by a class   *)
(* definition in the final glue, and in debug mode the construction token  *)
(* such a return wrapper passes is defined in the final glue, also for a   *)
(* class that has no exported method or static function.                   *)
(***************************************************************************)
IsCustom(tag) == tag \notin PrimitiveTags \cup {NoRet}

\* the class names the text generate_function built for `function` names
AssertedClasses(c, d, function) ==
    IF ~d THEN {}
    ELSE { c.custom_type_names[function.arguments[i]] :
             i \in { a \in 1..Len(function.arguments) : IsCustom(function.arguments[a]) } }
ReturnedClasses(c, function) ==
    IF IsCustom(function.ret) THEN {c.custom_type_names[function.ret]} ELSE {}

\* `const token = Symbol('foo')` comes with _checkToken
TokenDefined(c) == \E k \in 1..Len(c.globals) : c.globals[k].text = "function _checkToken"
ClassDefined(c, name) == \E k \in 1..Len(c.globals) : c.globals[k].text = "export class " \o name

C26_ReferencedClassesDefined ==
    phase \in {"finalized", "finalized again"} =>
        \A js \in AllJs(cx) :
            /\ \A name \in AssertedClasses(cx, debug, js.function)
                            \cup ReturnedClasses(cx, js.function) :
                  ClassDefined(cx, name)
            /\ (debug /\ ReturnedClasses(cx, js.function) # {}) => TokenDefined(cx)

(***************************************************************************)
(* C27: for every import descriptor that names an originating host module  *)
(* M, the final glue contains an import statement binding the descriptor's *)
(* imported name (its class name if it has one, its function name          *)
(* otherwise) from M, and no name is bound by more than one import         *)
(* statement, for any sequence of import descriptors, descriptors that     *)
(* share a name and name different modules included.                       *)
(***************************************************************************)
ImportsAsked == { asked[k].d : k \in { a \in 1..Len(asked) : asked[a].kind = "import" } }

C27_EveryImportBoundFromItsModule ==
    phase \in {"finalized", "finalized again"} =>
        /\ \A import \in ImportsAsked :
              import.module # None =>
                  \E k \in 1..Len(cx.imports) :
                      cx.imports[k] = ImportStatement(name_to_import(import), import.module)
        /\ \A j, k \in 1..Len(cx.imports) :
              cx.imports[j].name = cx.imports[k].name => j = k

====
